---- MODULE Spec2Model ----
(***************************************************************************)
(* Verification model of the organizer-pipeline repository: the LLM        *)
(* provider abstraction (organizer_core/providers), the extraction engine  *)
(* and dispatcher of the assistant variants, the persistence services and  *)
(* the typed models (organizer_core/models).                               *)
(*                                                                         *)
(* Each subsystem has its own variables, initial predicate and next-state  *)
(* relation; a specification SpecX runs one subsystem and leaves the       *)
(* variables of the others held at their initial value.                    *)
(***************************************************************************)
EXTENDS Integers, Sequences, FiniteSets, TLC

(***************************************************************************)
(* Bounds of the model.                                                    *)
(***************************************************************************)
NumCallers == 2      \* coroutines that call generate_response on one provider
MaxCalls == 3        \* generate_response calls issued in one behaviour
MaxItems == 2        \* candidates of one entity type in one extracted bundle
MaxIds == 2          \* ids a request can address
MaxInstant == 2      \* instants a start_time or end_time can take
MaxPieces == 3       \* pieces of one prompt or text
MaxTime == 24        \* last clock tick reached one tick at a time (one tick = 50 ms)
RateLimitPerMinute == 2  \* settings.security.rate_limit_per_minute (any value from 1 to 1000)
MaxRequests == 4     \* requests that reach the rate-limit middleware in one behaviour
MaxClock == 4        \* last tick of the middleware's clock (one tick = 20 s)
MaxChars == 5        \* characters (or whole words) of one filename or path
MaxCreates == 3      \* create_event calls on the flat-file backend in one behaviour
MaxCoroutines == 3   \* requests served at the same time on the shared connection
MaxTodos == 2        \* todos in the list at the start, and create_todo calls in one behaviour
MaxRemote == 2       \* tasks or events one remote listing returns
MaxSyncs == 3        \* sync runs in one behaviour
MaxTags == 2         \* tags of one list that are drawn freely (the rest are tag1, tag2, ...)

(***************************************************************************)
(* Program constants, in clock ticks of 50 ms.                             *)
(***************************************************************************)
BaseInterval == 20       \* _min_request_interval = 1.0
OpenAIInterval == 2      \* _min_request_interval = 0.1
AnthropicInterval == 4   \* _min_request_interval = 0.2
OllamaInterval == 1      \* _min_request_interval = 0.05
MaxTitleLength == 200    \* Field(..., min_length=1, max_length=200)
LongTitle == 201         \* a title one character over the limit
ManyAmpersands == 50     \* a title of 50 ampersands: 250 characters once escaped
TimeoutTicks == 20       \* config["timeout"] = 1, the smallest value _validate_config accepts
DefaultRetryAfter == 60  \* response.headers.get("Retry-After", 60)
MaxPromptLength == 10000 \* max_prompt_length = 10000
MaxSystemLength == 1000  \* max_system_length = 1000
FilterMarkerLen == 10    \* len("[FILTERED]")
DefaultMaxLength == 1000 \* validate_text(..., max_length: int = 1000, ...)
StartTime == 20          \* time.time() when the provider is constructed: never below any interval
WindowTicks == 3         \* window_start = now - 60, in ticks of 20 s
MaxFilenameLength == 255 \* if len(filename) > 255
MaxFilepathLength == 500 \* if len(normalized) > 500
MaxTagCount == 10        \* if len(tags) > 10 / max_items=10
MaxTagLength == 30       \* if len(tag) > 30

VARIABLES
    \* ---- provider subsystem (organizer_core/providers) ----
    provider,            \* concrete class of the provider instance
    now,                 \* time.time(), in ticks
    last_request_time,   \* BaseLLMProvider._last_request_time
    pc,                  \* position of each caller inside generate_response
    wake,                \* time at which a caller's asyncio.sleep ends
    dispatchTime,        \* time at which a caller's _make_request started
    dispatched,          \* times of the two latest requests handed to the backend
    cause,               \* what the backend did to a caller's request
    result,              \* what generate_response gave the caller
    calls,               \* generate_response calls issued so far
    \* ---- extraction engine (enhanced_/advanced_personal_assistant.py) ----
    exVariant,           \* which assistant ran the extraction
    exLLM,               \* what the LLM call gave the engine
    exResult,            \* what the engine gave its caller
    \* ---- action dispatcher (process_input / process_natural_language) ----
    dVariant,            \* which dispatcher handled the request
    dIntent,             \* the intent the cloud service parsed
    dBundle,             \* the candidates of the extracted bundle, per entity type
    dMemory,             \* entities in the in-memory collections
    dStored,             \* entities in the backing file or table
    dFlags,              \* the value each create call returned
    dReply,              \* what the end user is answered
    \* ---- calendar HTTP surface and CalendarService (three services) ----
    sVariant,            \* which service this deployment runs
    store,               \* table calendar_events: id -> row, or NoRow
    written,             \* the entity the last create or update of an id dealt with
    sOp,                 \* the last request: what the service method and the route gave
    \* ---- model objects (organizer_core/models, cloud service models) ----
    task,                \* one TodoItem / Task object, or the row update_task wrote
    event,               \* one CalendarEvent object
    mErr,                \* whether the last operation on them raised ValidationError
    mOp,                 \* the last operation on them and the end_time it was given
    \* ---- prompt sanitization (BaseLLMProvider._sanitize_*) ----
    prompt,              \* the prompt argument of generate_response
    system_prompt,       \* its system_prompt argument
    clean_prompt,        \* what _make_request is handed as prompt
    clean_system_prompt, \* what _make_request is handed as system prompt
    sanitized,           \* whether the two sanitizers have run
    \* ---- input validator (InputValidator.validate_text) ----
    text,                \* the text argument
    allow_html,          \* the allow_html argument
    min_length,          \* the min_length argument
    max_length,          \* the max_length argument
    validated,           \* validate_text(text)
    revalidated,         \* validate_text(validate_text(text)), when the first call returned
    \* ---- tag validation (InputValidator.validate_tags, TodoItem.validate_tags) ----
    tgVariant,           \* which of the two validators is called
    tags,                \* the list of tags it is given
    tgResult,            \* what it returned or raised
    \* ---- rate-limit middleware (organizer_api/middleware/rate_limit.py) ----
    requests,            \* RateLimitMiddleware.requests: client ip -> times of counted requests
    rlNow,               \* time.time(), in ticks
    admitted,            \* history: client ip -> times its requests on limited paths reached the handler
    rlResponse,          \* the last request and what the application answered
    rlCount,             \* requests received so far
    \* ---- filename and path validation (validators.py, files.py, sanitizers.py, FileService) ----
    fpVariant,           \* which function is called
    filepath,            \* the filename or path it is given
    fpResult,            \* what it returned or raised
    \* ---- flat-file backend shared by two assistant processes ----
    ffVariant,           \* which assistant the two processes run
    events_file,         \* the uids of the events in the JSON file
    events,              \* self.events of each process, as uids
    running,             \* the processes that have been started
    writable,            \* whether open(events_file, 'w') succeeds
    createLog,           \* history: one record per create_event call that returned
    \* ---- update and delete on the shared aiosqlite connection ----
    table,               \* id -> the fields of the row as the connection sees them, or None
    co,                  \* the coroutines: operation, id, position, return value
    \* ---- weekly cleanup on the scheduler thread, create_todo on the main thread ----
    todos,               \* the list self.todos refers to
    todos_file,          \* the list last written by save_todos
    cleanup,             \* the scheduler thread inside cleanup_old_data: position and locals
    creating,            \* the main thread inside create_todo: position and the list it appended to
    expected,            \* history: uids of the todos that are not completed
    \* ---- Todoist and CalDAV sync of the cloud service ----
    syService,           \* the service that is synced: Todoist or CalDAV
    remote,              \* what its get_tasks / get_events returns now
    rows,                \* the local tasks and calendar_events rows that carry metadata
    lastRun,             \* history: the outcome of the last run, whether it saw the
                         \* listing the run before it saw, whether remote is still
                         \* the listing it saw
    syncs,               \* sync runs so far
    \* ---- POST /api/v1/llm/chat (organizer_api/routers/llm.py) ----
    chRequest,           \* the request body: prompt and system_prompt
    chResponse           \* the status the client is answered and the field it names

provVars == <<provider, now, last_request_time, pc, wake, dispatchTime,
              dispatched, cause, result, calls>>

exVars == <<exVariant, exLLM, exResult>>
dVars == <<dVariant, dIntent, dBundle, dMemory, dStored, dFlags, dReply>>
sVars == <<sVariant, store, written, sOp>>
mVars == <<task, event, mErr, mOp>>
pVars == <<prompt, system_prompt, clean_prompt, clean_system_prompt, sanitized>>
vVars == <<text, allow_html, min_length, max_length, validated, revalidated>>
tgVars == <<tgVariant, tags, tgResult>>
fpVars == <<fpVariant, filepath, fpResult>>
ffVars == <<ffVariant, events_file, events, running, writable, createLog>>
coVars == <<table, co>>
clVars == <<todos, todos_file, cleanup, creating, expected>>
syVars == <<syService, remote, rows, lastRun, syncs>>
chVars == <<chRequest, chResponse>>
rlVars == <<requests, rlNow, admitted, rlResponse, rlCount>>

\* what the actions of one subsystem leave alone
provOthers == <<exVars, dVars, sVars, mVars, pVars, vVars, tgVars, rlVars,
    chVars, fpVars, ffVars, coVars, clVars, syVars>>
exOthers == <<provVars, dVars, sVars, mVars, pVars, vVars, tgVars, rlVars,
    chVars, fpVars, ffVars, coVars, clVars, syVars>>
dOthers == <<provVars, exVars, sVars, mVars, pVars, vVars, tgVars, rlVars,
    chVars, fpVars, ffVars, coVars, clVars, syVars>>
sOthers == <<provVars, exVars, dVars, mVars, pVars, vVars, tgVars, rlVars,
    chVars, fpVars, ffVars, coVars, clVars, syVars>>
mOthers == <<provVars, exVars, dVars, sVars, pVars, vVars, tgVars, rlVars,
    chVars, fpVars, ffVars, coVars, clVars, syVars>>
pOthers == <<provVars, exVars, dVars, sVars, mVars, vVars, tgVars, rlVars,
    chVars, fpVars, ffVars, coVars, clVars, syVars>>
vOthers == <<provVars, exVars, dVars, sVars, mVars, pVars, tgVars, rlVars,
    chVars, fpVars, ffVars, coVars, clVars, syVars>>
tgOthers == <<provVars, exVars, dVars, sVars, mVars, pVars, vVars, rlVars,
    chVars, fpVars, ffVars, coVars, clVars, syVars>>
rlOthers == <<provVars, exVars, dVars, sVars, mVars, pVars, vVars, tgVars,
    chVars, fpVars, ffVars, coVars, clVars, syVars>>
chOthers == <<provVars, exVars, dVars, sVars, mVars, pVars, vVars, tgVars,
    rlVars, fpVars, ffVars, coVars, clVars, syVars>>
fpOthers == <<provVars, exVars, dVars, sVars, mVars, pVars, vVars, tgVars,
    rlVars, chVars, ffVars, coVars, clVars, syVars>>
ffOthers == <<provVars, exVars, dVars, sVars, mVars, pVars, vVars, tgVars,
    rlVars, chVars, fpVars, coVars, clVars, syVars>>
coOthers == <<provVars, exVars, dVars, sVars, mVars, pVars, vVars, tgVars,
    rlVars, chVars, fpVars, ffVars, clVars, syVars>>
clOthers == <<provVars, exVars, dVars, sVars, mVars, pVars, vVars, tgVars,
    rlVars, chVars, fpVars, ffVars, coVars, syVars>>
syOthers == <<provVars, exVars, dVars, sVars, mVars, pVars, vVars, tgVars,
    rlVars, chVars, fpVars, ffVars, coVars, clVars>>

Callers == 1..NumCallers
Providers == {"openai", "anthropic", "ollama", "demo"}
NetworkProviders == {"openai", "anthropic", "ollama"}

\* LLMErrorType
AUTHENTICATION == "authentication"
RATE_LIMIT == "rate_limit"
INVALID_REQUEST == "invalid_request"
SERVER_ERROR == "server_error"
TIMEOUT == "timeout"
UNKNOWN == "unknown"

\* _min_request_interval after the constructor of each class has run
MinRequestInterval(p) ==
    CASE p = "openai" -> OpenAIInterval
      [] p = "anthropic" -> AnthropicInterval
      [] p = "ollama" -> OllamaInterval
      [] OTHER -> BaseInterval

NoError == [type |-> "ok", status_code |-> 0, retry_after |-> 0]
LLMError(t, sc, ra) == [type |-> t, status_code |-> sc, retry_after |-> ra]

(***************************************************************************)
(* What the backend can do to one request.  kind "http" is a reply with a  *)
(* status code; body tells whether the 200 body has the expected field,    *)
(* lacks it, or is not JSON.  retry is the Retry-After header: 0 when it   *)
(* is absent, a number of seconds, or HttpDate when it holds a date.       *)
(* The other kinds are the httpx exceptions client.post can raise.         *)
(***************************************************************************)
HttpDate == -1
Statuses == {200, 401, 404, 429, 503}
HttpEvents ==
    {[kind |-> "http", status |-> s, retry |-> r, body |-> b] :
        s \in Statuses, r \in {0, 5, HttpDate}, b \in {"ok", "missing", "notjson"}}
ExcEvents ==
    {[kind |-> k, status |-> 0, retry |-> 0, body |-> "ok"] :
        k \in {"ConnectError", "ReadError", "TimeoutException"}}
NoEvent == [kind |-> "none", status |-> 0, retry |-> 0, body |-> "ok"]
DeadlineEvent == [kind |-> "deadline", status |-> 0, retry |-> 0, body |-> "ok"]
BackendEvents(p) ==
    IF p = "demo"
    THEN {[kind |-> "http", status |-> 200, retry |-> 0, body |-> "ok"]}
    ELSE {e \in HttpEvents : (e.retry # 0 => e.status = 429)
                             /\ (e.body # "ok" => e.status = 200)} \cup ExcEvents

RetryAfterOf(e) == IF e.retry = 0 THEN DefaultRetryAfter ELSE e.retry

\* body handling after the status checks: response.json(), then the field test
ParseBody(e) ==
    CASE e.body = "ok" -> NoError
      [] e.body = "missing" -> LLMError(INVALID_REQUEST, 0, 0)
      [] OTHER -> LLMError("raised", 0, 0)   \* json.JSONDecodeError, not an LLMError

\* OpenAIProvider._make_request and AnthropicProvider._make_request
HostedMakeRequest(e) ==
    CASE e.kind = "http" /\ e.status = 401 -> LLMError(AUTHENTICATION, 401, 0)
      \* int() of a date raises ValueError, which is not an LLMError
      [] e.kind = "http" /\ e.status = 429 ->
            IF e.retry = HttpDate THEN LLMError("raised", 0, 0)
            ELSE LLMError(RATE_LIMIT, 429, RetryAfterOf(e))
      [] e.kind = "http" /\ e.status >= 500 -> LLMError(SERVER_ERROR, e.status, 0)
      [] e.kind = "http" /\ e.status \notin {200, 401, 429} /\ e.status < 500 ->
            LLMError(INVALID_REQUEST, e.status, 0)
      [] e.kind = "http" /\ e.status = 200 -> ParseBody(e)
      \* except httpx.RequestError comes first and covers every transport error
      [] OTHER -> LLMError(TIMEOUT, 0, 0)

\* OllamaProvider._make_request
OllamaMakeRequest(e) ==
    CASE e.kind = "http" /\ e.status = 404 -> LLMError(INVALID_REQUEST, 404, 0)
      [] e.kind = "http" /\ e.status >= 500 -> LLMError(SERVER_ERROR, e.status, 0)
      [] e.kind = "http" /\ e.status \notin {200, 404} /\ e.status < 500 ->
            LLMError(INVALID_REQUEST, e.status, 0)
      [] e.kind = "http" /\ e.status = 200 -> ParseBody(e)
      [] e.kind = "ConnectError" -> LLMError(SERVER_ERROR, 0, 0)
      [] OTHER -> LLMError(TIMEOUT, 0, 0)

\* DemoProvider._make_request always returns a canned reply
DemoMakeRequest(e) == NoError

MakeRequest(p, e) ==
    CASE p = "ollama" -> OllamaMakeRequest(e)
      [] p = "demo" -> DemoMakeRequest(e)
      [] OTHER -> HostedMakeRequest(e)

\* the except clauses of generate_response applied to what _make_request gave
GenerateOutcome(r) ==
    IF r.type = "raised" THEN LLMError(UNKNOWN, 0, 0) ELSE r

\* dispatch times are monotone, so the two latest bound every gap
LastTwo(s) == IF Len(s) > 2 THEN Tail(s) ELSE s

\* generate_response up to the first suspension of _rate_limit: either the
\* caller goes to sleep or it stamps _last_request_time straight away
Call(c) ==
    /\ UNCHANGED provOthers
    /\ pc[c] = "idle"
    /\ calls < MaxCalls
    /\ calls' = calls + 1
    /\ LET time_since_last == now - last_request_time IN
       IF time_since_last < MinRequestInterval(provider)
       THEN /\ wake' = [wake EXCEPT ![c] = now + (MinRequestInterval(provider) - time_since_last)]
            /\ pc' = [pc EXCEPT ![c] = "sleeping"]
            /\ UNCHANGED last_request_time
       ELSE /\ last_request_time' = now
            /\ pc' = [pc EXCEPT ![c] = "limited"]
            /\ UNCHANGED wake
    /\ UNCHANGED <<provider, now, dispatchTime, dispatched, cause, result>>

\* asyncio.sleep(sleep_time) is over; _rate_limit stamps and returns
Wake(c) ==
    /\ UNCHANGED provOthers
    /\ pc[c] = "sleeping"
    /\ now >= wake[c]
    /\ last_request_time' = now
    /\ pc' = [pc EXCEPT ![c] = "limited"]
    /\ UNCHANGED <<provider, now, wake, dispatchTime, dispatched, cause, result, calls>>

\* prompts are sanitised and wait_for starts _make_request
Dispatch(c) ==
    /\ UNCHANGED provOthers
    /\ pc[c] = "limited"
    /\ pc' = [pc EXCEPT ![c] = "inflight"]
    /\ dispatchTime' = [dispatchTime EXCEPT ![c] = now]
    /\ dispatched' = LastTwo(Append(dispatched, now))
    /\ UNCHANGED <<provider, now, last_request_time, wake, cause, result, calls>>

\* the backend answers (or the transport fails) before the deadline
BackendReply(c) ==
    /\ UNCHANGED provOthers
    /\ pc[c] = "inflight"
    /\ now - dispatchTime[c] < TimeoutTicks
    /\ \E e \in BackendEvents(provider) :
          /\ cause' = [cause EXCEPT ![c] = e]
          /\ result' = [result EXCEPT ![c] = GenerateOutcome(MakeRequest(provider, e))]
    /\ pc' = [pc EXCEPT ![c] = "returned"]
    /\ UNCHANGED <<provider, now, last_request_time, wake, dispatchTime, dispatched, calls>>

\* asyncio.wait_for gives up: except asyncio.TimeoutError
DeadlineExceeded(c) ==
    /\ UNCHANGED provOthers
    /\ pc[c] = "inflight"
    /\ now - dispatchTime[c] >= TimeoutTicks
    /\ cause' = [cause EXCEPT ![c] = DeadlineEvent]
    /\ result' = [result EXCEPT ![c] = LLMError(TIMEOUT, 0, 0)]
    /\ pc' = [pc EXCEPT ![c] = "returned"]
    /\ UNCHANGED <<provider, now, last_request_time, wake, dispatchTime, dispatched, calls>>

\* the caller has its response or its LLMError and may call again
Return(c) ==
    /\ UNCHANGED provOthers
    /\ pc[c] = "returned"
    /\ pc' = [pc EXCEPT ![c] = "idle"]
    /\ cause' = [cause EXCEPT ![c] = NoEvent]
    /\ result' = [result EXCEPT ![c] = NoError]
    /\ wake' = [wake EXCEPT ![c] = 0]
    /\ dispatchTime' = [dispatchTime EXCEPT ![c] = 0]
    /\ UNCHANGED <<provider, now, last_request_time, dispatched, calls>>

\* instants at which a sleeping caller is due or a deadline expires
Timers ==
    {wake[c] : c \in {x \in Callers : pc[x] = "sleeping"}}
        \cup {dispatchTime[c] + TimeoutTicks : c \in {x \in Callers : pc[x] = "inflight"}}

\* the wall clock advances, by one tick or up to the next timer; the code
\* between _rate_limit and the start of _make_request takes no tick
Tick ==
    /\ UNCHANGED provOthers
    /\ \A c \in Callers : pc[c] # "limited"
    /\ \/ now < MaxTime /\ now' = now + 1
       \/ \E t \in Timers : t > now /\ now' = t
    /\ UNCHANGED <<provider, last_request_time, pc, wake, dispatchTime, dispatched,
                   cause, result, calls>>

vars == <<provVars, exVars, dVars, sVars, mVars, pVars, vVars, tgVars,
    rlVars, chVars, fpVars, ffVars, coVars, clVars, syVars>>

ProvNext ==
    \/ \E c \in Callers : Call(c)
    \/ \E c \in Callers : Wake(c)
    \/ \E c \in Callers : Dispatch(c)
    \/ \E c \in Callers : BackendReply(c)
    \/ \E c \in Callers : DeadlineExceeded(c)
    \/ \E c \in Callers : Return(c)
    \/ Tick

(***************************************************************************)
(* Extraction engine.  The text of an LLM reply is modelled by its shape:  *)
(* what precedes the body (nothing, a json code fence, a bare code fence or *)
(* other text), what follows it (nothing, a code fence or other text), and *)
(* the body: a JSON object, array, string, number or null, or text that is *)
(* not JSON.  keys are the bundle keys that occur as the object's keys, as *)
(* the array's elements or inside the string.                              *)
(***************************************************************************)
BundleKeys == {"calendar_events", "todos", "contacts", "file_actions", "queries", "response"}
EnhancedCollections == {"calendar_events", "todos", "contacts", "file_actions", "queries"}
AdvancedCollections == {"calendar_events", "todos", "contacts"}
Collections(v) == IF v = "enhanced" THEN EnhancedCollections ELSE AdvancedCollections
ExVariants == {"enhanced", "advanced"}

JsonTypes == {"object", "array", "string", "number", "null"}
LLMTexts ==
    {[kind |-> "text", pre |-> a, post |-> b, type |-> t, keys |-> ks] :
        a \in {"", "FENCE_JSON", "FENCE", "junk"}, b \in {"", "FENCE", "junk"},
        t \in JsonTypes \cup {"garbage"}, ks \in SUBSET BundleKeys}
NoText(k) == [kind |-> k, pre |-> "", post |-> "", type |-> "garbage", keys |-> {}]
\* the provider raised, the reply carried no content, or it carried a text
LLMOutputs ==
    {NoText("raise"), NoText("none")}
        \cup {x \in LLMTexts : x.type \in {"number", "null", "garbage"} => x.keys = {}}

\* json_str.startswith(FENCE_JSON) / json_str.endswith(FENCE) and the slices
StripFence(x) ==
    [x EXCEPT !.pre = IF x.pre = "FENCE_JSON" THEN "" ELSE x.pre,
              !.post = IF x.post = "FENCE" THEN "" ELSE x.post]

\* json.loads raises JSONDecodeError unless the whole string is one JSON value
JsonLoads(x) == IF x.pre = "" /\ x.post = "" /\ x.type # "garbage" THEN "value" ELSE "JSONDecodeError"

\* what the engine hands back: a dict, whose keys hold the LLM's value, a
\* default the engine filled in or nothing; the parsed value itself when it
\* is not a dict; or an exception that leaves the function
Absent == "absent"
Bundle(f, resp) ==
    [status |-> "returned", type |-> "object",
     val |-> [k \in BundleKeys |-> IF k = "response" THEN resp ELSE f[k]]]
FailureBundle(v, resp) ==
    Bundle([k \in BundleKeys |-> IF k \in Collections(v) THEN "empty" ELSE Absent], resp)
RawValue(x) ==
    [status |-> "returned", type |-> x.type,
     val |-> [k \in BundleKeys |-> IF k \in x.keys THEN "llm" ELSE Absent]]
Raised(e) == [status |-> "raised", type |-> e, val |-> [k \in BundleKeys |-> Absent]]
NoResult == [status |-> "none", type |-> "none", val |-> [k \in BundleKeys |-> Absent]]

ParseApology == "I had trouble understanding that request. Could you rephrase it?"
ErrorApology == "Sorry, I encountered an error processing your request."
Acknowledgement == "I've processed your request."

\* the back-fill statements (if key not in result: result[key] = default)
\* applied to a parsed value, for the keys the variant checks
Backfill(x, v) ==
    LET checked == Collections(v) \cup {"response"} IN
    CASE x.type = "object" ->
            Bundle([k \in BundleKeys |->
                        IF k \in x.keys THEN "llm"
                        ELSE IF k \in Collections(v) THEN "empty" ELSE Absent],
                   IF "response" \in x.keys THEN "llm" ELSE Acknowledgement)
      \* "key not in" is element or substring search; the item assignment fails
      [] x.type \in {"array", "string"} ->
            IF checked \subseteq x.keys THEN RawValue(x) ELSE Raised("TypeError")
      \* a number or null does not support "in"
      [] OTHER -> Raised("TypeError")

\* EnhancedPersonalAssistant.extract_information_with_llm: the provider call
\* and the parsing are inside one try with two except clauses
ExtractEnhanced(x) ==
    CASE x.kind = "raise" -> FailureBundle("enhanced", ErrorApology)
      [] x.kind = "none" -> FailureBundle("enhanced", ErrorApology)   \* None.strip()
      [] JsonLoads(StripFence(x)) = "JSONDecodeError" -> FailureBundle("enhanced", ParseApology)
      [] OTHER ->
            LET r == Backfill(x, "enhanced") IN
            IF r.status = "raised" THEN FailureBundle("enhanced", ErrorApology) ELSE r

\* PersonalAssistant.call_llm turns every exception into a sentence
CallLLM(x) == IF x.kind = "raise" THEN [NoText("text") EXCEPT !.type = "garbage"] ELSE x

\* PersonalAssistant.extract_calendar_events_and_todos: only JSONDecodeError
\* is caught
ExtractAdvanced(x) ==
    LET y == CallLLM(x) IN
    CASE y.kind = "none" -> Raised("AttributeError")   \* None.strip()
      [] JsonLoads(StripFence(y)) = "JSONDecodeError" -> FailureBundle("advanced", ParseApology)
      [] OTHER -> Backfill(y, "advanced")

ExtractBundle(v, x) == IF v = "enhanced" THEN ExtractEnhanced(x) ELSE ExtractAdvanced(x)

\* one run of the extraction engine on the LLM outcome
Extract ==
    /\ UNCHANGED exOthers
    /\ exResult = NoResult
    /\ exResult' = ExtractBundle(exVariant, exLLM)
    /\ UNCHANGED <<exVariant, exLLM>>

ExNext == Extract

(***************************************************************************)
(* Action dispatcher.  A candidate of an extracted bundle is valid, is     *)
(* malformed (constructing the entity raises: a missing title, a date that *)
(* does not parse, an unknown enum value) or is unstorable (the write of   *)
(* the collection raises while this candidate is being stored).            *)
(***************************************************************************)
DVariants == {"enhanced", "local_demo", "cloud"}
EntityTypes == <<"calendar_events", "todos", "contacts">>
CandidateKinds == {"valid", "malformed", "unstorable"}
CandidateLists == UNION {[1..n -> CandidateKinds] : n \in 0..MaxItems}
Bundles == [{"calendar_events", "todos", "contacts"} -> CandidateLists]
Intents == {"calendar_create", "task_create", "other"}

\* the candidates a request hands to a create, in the order of the calls
RECURSIVE ItemsOf(_, _, _)
ItemsOf(b, t, i) ==
    IF i > Len(b[t]) THEN <<>>
    ELSE <<[type |-> t, index |-> i, kind |-> b[t][i]]>> \o ItemsOf(b, t, i + 1)

\* process_input walks calendar_events, todos and contacts in turn; the
\* cloud service creates the first event of a calendar_create request and
\* every task of a task_create request
WorkList(v, intent, b) ==
    IF v = "cloud"
    THEN CASE intent = "calendar_create" ->
                IF b["calendar_events"] = <<>> THEN <<>>
                ELSE <<Head(ItemsOf(b, "calendar_events", 1))>>
           [] intent = "task_create" -> ItemsOf(b, "todos", 1)
           [] OTHER -> <<>>
    ELSE ItemsOf(b, "calendar_events", 1) \o ItemsOf(b, "todos", 1) \o ItemsOf(b, "contacts", 1)

Id(item) == <<item.type, item.index>>

\* create_calendar_event / create_todo / create_contact of the enhanced
\* assistant: everything is inside try; save_* swallows its own write errors
CreateEnhanced(st, item) ==
    CASE item.kind = "malformed" ->
            [st EXCEPT !.flags = Append(@, FALSE)]
      [] item.kind = "unstorable" ->
            [st EXCEPT !.memory = @ \cup {Id(item)}, !.flags = Append(@, TRUE)]
      [] OTHER ->
            [st EXCEPT !.memory = @ \cup {Id(item)},
                       !.stored = st.memory \cup {Id(item)},
                       !.flags = Append(@, TRUE)]

\* create_event / create_todo / create_contact of the local demo assistant:
\* save_* raises into the except clause of the create
CreateLocalDemo(st, item) ==
    CASE item.kind = "malformed" ->
            [st EXCEPT !.flags = Append(@, FALSE)]
      [] item.kind = "unstorable" ->
            [st EXCEPT !.memory = @ \cup {Id(item)}, !.flags = Append(@, FALSE)]
      [] OTHER ->
            [st EXCEPT !.memory = @ \cup {Id(item)},
                       !.stored = st.memory \cup {Id(item)},
                       !.flags = Append(@, TRUE)]

\* the body of the cloud loops: the model constructor and the service call
\* are not guarded, the exception reaches the handler's except clause
CreateCloud(st, item) ==
    IF item.kind = "valid"
    THEN [st EXCEPT !.memory = @ \cup {Id(item)}, !.stored = @ \cup {Id(item)}]
    ELSE [st EXCEPT !.raised = TRUE]

CreateOne(v, st, item) ==
    CASE v = "enhanced" -> CreateEnhanced(st, item)
      [] v = "local_demo" -> CreateLocalDemo(st, item)
      [] OTHER -> CreateCloud(st, item)

\* the for loops: an exception that leaves a create ends the request
RECURSIVE RunCreates(_, _, _)
RunCreates(v, st, work) ==
    IF work = <<>> \/ st.raised THEN st
    ELSE RunCreates(v, CreateOne(v, st, Head(work)), Tail(work))

DispatchStart == [memory |-> {}, stored |-> {}, flags |-> <<>>, raised |-> FALSE]

\* the answer.  The cloud service returns actions_taken, one entry per
\* create, and a sentence that counts them, or the exception turned into the
\* reply (HTTPException(status_code=500, detail=str(e))); the assistants
\* return the response text of the bundle, which no create contributes to
NoCount == -1
ReplyOf(v, st) ==
    IF st.raised THEN [kind |-> "exception", status |-> 500, count |-> NoCount]
    ELSE [kind |-> "response", status |-> 200,
          count |-> IF v = "cloud" THEN Cardinality(st.stored) ELSE NoCount]

NoReply == [kind |-> "none", status |-> 0, count |-> NoCount]

\* one request through process_input or process_natural_language
ProcessInput ==
    /\ UNCHANGED dOthers
    /\ dReply = NoReply
    /\ LET st == RunCreates(dVariant, DispatchStart, WorkList(dVariant, dIntent, dBundle)) IN
       /\ dMemory' = st.memory
       /\ dStored' = st.stored
       /\ dFlags' = st.flags
       /\ dReply' = ReplyOf(dVariant, st)
    /\ UNCHANGED <<dVariant, dIntent, dBundle>>

DNext == ProcessInput

DWork == WorkList(dVariant, dIntent, dBundle)

\* C3: one bad candidate does not stop the batch: every valid candidate of
\* the request is created although another candidate failed
C3_BadItemDoesNotAbortBatch ==
    dReply.kind # "none" =>
        \A i, j \in 1..Len(DWork) :
            (DWork[i].kind # "valid" /\ DWork[j].kind = "valid") => Id(DWork[j]) \in dStored

\* C4: every create returns a boolean flag and no exception from building
\* or storing an entity reaches the reply to the end user
C4_CreateErrorsNeverReachReply ==
    dReply.kind # "none" =>
        /\ dReply.kind # "exception"
        /\ (dVariant # "cloud" => Len(dFlags) = Len(DWork))

(***************************************************************************)
(* Calendar events behind the HTTP surface.  A text is modelled by how     *)
(* many of its characters are ampersands, angle brackets, quotes and other *)
(* characters: that fixes its length and what html.escape makes of it.     *)
(* An instant is a small integer; None is 0.                               *)
(***************************************************************************)
None == 0
Text(a, l, q, p) == [amp |-> a, lt |-> l, quot |-> q, plain |-> p]
TextLen(t) == t.amp + t.lt + t.quot + t.plain

\* html.escape: & -> &amp;   < -> &lt;   " -> &quot;
HtmlEscape(t) ==
    [amp |-> t.amp + t.lt + t.quot, lt |-> 0, quot |-> 0,
     plain |-> t.plain + 4 * t.amp + 3 * t.lt + 5 * t.quot]

Titles ==
    {Text(0, 0, 0, 5), Text(1, 1, 1, 1), Text(ManyAmpersands, 0, 0, 0),
     Text(0, 0, 0, 0), Text(0, 0, 0, LongTitle)}
Instants == 1..MaxInstant
Ids == 1..MaxIds
SVariants == {"organizer_api", "cloud", "pds"}
EventInputs == [title : Titles, start_time : Instants, end_time : Instants \cup {None}]

Invalid == [valid |-> FALSE, title |-> Text(0, 0, 0, 0), start_time |-> None, end_time |-> None]
Entity(t, s, e) == [valid |-> TRUE, title |-> t, start_time |-> s, end_time |-> e]
NoRow == [valid |-> FALSE, title |-> Text(0, 0, 0, 0), start_time |-> None, end_time |-> None]

\* organizer_core CalendarEvent(...): the Field constraints on the raw title,
\* then validate_end_time and sanitize_title
CoreCalendarEvent(t, s, e) ==
    IF TextLen(t) < 1 \/ TextLen(t) > MaxTitleLength THEN Invalid
    ELSE IF e # None /\ e <= s THEN Invalid
    ELSE Entity(HtmlEscape(t), s, e)

\* the cloud service CalendarEvent(...): set_end_time fills a missing end
CloudCalendarEvent(t, s, e) == Entity(t, s, IF e = None THEN s + 1 ELSE e)

\* the personal-data-service CalendarEvent(...) has no validator
PdsCalendarEvent(t, s, e) == Entity(t, s, e)

CalendarEvent(v, t, s, e) ==
    CASE v = "organizer_api" -> CoreCalendarEvent(t, s, e)
      [] v = "cloud" -> CloudCalendarEvent(t, s, e)
      [] OTHER -> PdsCalendarEvent(t, s, e)

\* _row_to_event builds the model again from the columns of the row
RowToEvent(v, row) == CalendarEvent(v, row.title, row.start_time, row.end_time)

NoOp == [op |-> "none", id |-> 0, existed |-> FALSE, svc |-> "n/a", changed |-> FALSE,
         status |-> 0, body |-> Invalid]
Op(o, i, ex, svc, ch, st, b) ==
    [op |-> o, id |-> i, existed |-> ex, svc |-> svc, changed |-> ch, status |-> st, body |-> b]

Exists(i) == store[i] # NoRow

\* POST /calendar/events: the body is validated into the model (422), then
\* CalendarService.create_event inserts the row under a new id
HttpCreate(in) ==
    /\ UNCHANGED sOthers
    /\ LET ev == CalendarEvent(sVariant, in.title, in.start_time, in.end_time) IN
       IF ~ev.valid
       THEN /\ sOp' = Op("POST", 0, FALSE, "n/a", FALSE, 422, Invalid)
            /\ UNCHANGED <<sVariant, store, written>>
       ELSE \E i \in Ids :
               /\ ~Exists(i)
               /\ store' = [store EXCEPT ![i] = ev]
               /\ written' = [written EXCEPT ![i] = ev]
               /\ sOp' = Op("POST", i, FALSE, "entity", TRUE,
                            IF sVariant = "organizer_api" THEN 201 ELSE 200, ev)
               /\ UNCHANGED sVariant

\* CalendarService.get_event: None for a missing row, else _row_to_event,
\* whose constructor may raise
GetEvent(i) ==
    IF ~Exists(i) THEN [ret |-> "None", ev |-> Invalid]
    ELSE LET ev == RowToEvent(sVariant, store[i]) IN
         IF ev.valid THEN [ret |-> "entity", ev |-> ev] ELSE [ret |-> "raised", ev |-> Invalid]

\* GET /calendar/events/{id} (organizer_api, personal-data-service)
HttpGet(i) ==
    /\ UNCHANGED sOthers
    /\ sVariant \in {"organizer_api", "pds"}
    /\ LET g == GetEvent(i) IN
       sOp' = Op("GET", i, Exists(i), g.ret, FALSE,
                 CASE g.ret = "None" -> 404 [] g.ret = "raised" -> 500 [] OTHER -> 200,
                 g.ev)
    /\ UNCHANGED <<sVariant, store, written>>

\* the except clause the cloud and personal-data routes wrap around their
\* own HTTPException(404): except Exception -> HTTPException(500)
RouteStatus(v, found) ==
    IF found THEN 200
    ELSE IF v = "organizer_api" THEN 404 ELSE 500

\* PUT /calendar/events/{id} with CalendarService.update_event
HttpUpdate(i, in) ==
    /\ UNCHANGED sOthers
    /\ LET ev == CalendarEvent(sVariant, in.title, in.start_time, in.end_time) IN
       IF ~ev.valid
       THEN /\ sOp' = Op("PUT", i, Exists(i), "n/a", FALSE, 422, Invalid)
            /\ UNCHANGED <<sVariant, store, written>>
       ELSE IF sVariant = "organizer_api"
       THEN \* existing = get_event(...); if not existing: return None
            LET g == GetEvent(i) IN
            CASE g.ret = "None" ->
                   /\ sOp' = Op("PUT", i, FALSE, "None", FALSE, RouteStatus(sVariant, FALSE), Invalid)
                   /\ UNCHANGED <<sVariant, store, written>>
              [] g.ret = "raised" ->
                   /\ sOp' = Op("PUT", i, TRUE, "raised", FALSE, 500, Invalid)
                   /\ UNCHANGED <<sVariant, store, written>>
              [] OTHER ->
                   /\ store' = [store EXCEPT ![i] = ev]
                   /\ written' = [written EXCEPT ![i] = ev]
                   /\ sOp' = Op("PUT", i, TRUE, "entity", TRUE, 200, ev)
                   /\ UNCHANGED sVariant
       ELSE \* UPDATE ... WHERE id = ?; return conn.total_changes > 0
            /\ store' = IF Exists(i) THEN [store EXCEPT ![i] = ev] ELSE store
            /\ written' = IF Exists(i) THEN [written EXCEPT ![i] = ev] ELSE written
            /\ sOp' = Op("PUT", i, Exists(i), IF Exists(i) THEN "True" ELSE "False", Exists(i),
                         RouteStatus(sVariant, Exists(i)), Invalid)
            /\ UNCHANGED sVariant

\* DELETE /calendar/events/{id} with CalendarService.delete_event
HttpDelete(i) ==
    /\ UNCHANGED sOthers
    /\ IF sVariant = "organizer_api"
       THEN LET g == GetEvent(i) IN
            CASE g.ret = "None" ->
                   /\ sOp' = Op("DELETE", i, FALSE, "False", FALSE, RouteStatus(sVariant, FALSE), Invalid)
                   /\ UNCHANGED <<sVariant, store, written>>
              [] g.ret = "raised" ->
                   /\ sOp' = Op("DELETE", i, TRUE, "raised", FALSE, 500, Invalid)
                   /\ UNCHANGED <<sVariant, store, written>>
              [] OTHER ->
                   /\ store' = [store EXCEPT ![i] = NoRow]
                   /\ written' = [written EXCEPT ![i] = NoRow]
                   /\ sOp' = Op("DELETE", i, TRUE, "True", TRUE, 204, Invalid)
                   /\ UNCHANGED sVariant
       ELSE /\ store' = [store EXCEPT ![i] = NoRow]
            /\ written' = [written EXCEPT ![i] = NoRow]
            /\ sOp' = Op("DELETE", i, Exists(i), IF Exists(i) THEN "True" ELSE "False", Exists(i),
                         RouteStatus(sVariant, Exists(i)), Invalid)
            /\ UNCHANGED sVariant

SNext ==
    \/ \E in \in EventInputs : HttpCreate(in)
    \/ \E i \in Ids : HttpGet(i)
    \/ \E i \in Ids, in \in EventInputs : HttpUpdate(i, in)
    \/ \E i \in Ids : HttpDelete(i)

(***************************************************************************)
(* Model objects.  organizer_core models validate on construction and,     *)
(* with validate_assignment, the field that is assigned; the models of the *)
(* cloud service declare the fields only.                                  *)
(***************************************************************************)
TaskStatuses == {"pending", "in_progress", "completed", "cancelled", "on_hold"}
MVariants == {"organizer_core", "cloud"}
NoTask == [variant |-> "none", status |-> "pending", completed_at |-> None]
NoCalendarEvent == [variant |-> "none", start_time |-> None, end_time |-> None]
\* the assistants build their events too: the enhanced one in
\* create_calendar_event, the local demo one in create_event
EventVariants == MVariants \cup {"enhanced", "local_demo"}
ModelOp(o, e) == [op |-> o, end_time |-> e]
NoModelOp == ModelOp("none", None)

\* TodoItem.validate_completion, with values holding the validated status
ValidateCompletion(v, status) == ~(v # None /\ status # "completed")

\* CalendarEvent.validate_end_time, with values holding the start time
ValidateEndTime(v, start) == ~(v # None /\ v <= start)

\* TodoItem(status=..., completed_at=...) / Task(status=..., completed_at=...)
NewTask(v, st, c) ==
    /\ UNCHANGED mOthers
    /\ mOp' = ModelOp("NewTask", None)
    /\ IF v = "organizer_core" /\ ~ValidateCompletion(c, st)
       THEN /\ mErr' = TRUE
            /\ UNCHANGED <<task, event>>
       ELSE /\ task' = [variant |-> v, status |-> st, completed_at |-> c]
            /\ mErr' = FALSE
            /\ UNCHANGED event

\* TodoItem.mark_completed: two validated assignments
MarkCompleted(t) ==
    /\ UNCHANGED mOthers
    /\ mOp' = ModelOp("MarkCompleted", None)
    /\ task.variant = "organizer_core"
    /\ task' = [task EXCEPT !.status = "completed", !.completed_at = t]
    /\ mErr' = FALSE
    /\ UNCHANGED event

\* task.status = st: the enum is checked, no validator looks at completed_at
AssignStatus(st) ==
    /\ UNCHANGED mOthers
    /\ mOp' = ModelOp("AssignStatus", None)
    /\ task.variant # "none"
    /\ task' = [task EXCEPT !.status = st]
    /\ mErr' = FALSE
    /\ UNCHANGED event

\* task.completed_at = c: validate_completion runs on the organizer_core model
AssignCompletedAt(c) ==
    /\ UNCHANGED mOthers
    /\ mOp' = ModelOp("AssignCompletedAt", None)
    /\ task.variant # "none"
    /\ IF task.variant = "organizer_core" /\ ~ValidateCompletion(c, task.status)
       THEN mErr' = TRUE /\ UNCHANGED task
       ELSE task' = [task EXCEPT !.completed_at = c] /\ mErr' = FALSE
    /\ UNCHANGED event

\* TaskService.update_task of the cloud service: the row takes the status and
\* the completed_at of the Task it is given, stamping a completed task
UpdateTask(st, c, t) ==
    /\ UNCHANGED mOthers
    /\ mOp' = ModelOp("UpdateTask", None)
    /\ task.variant = "cloud"
    /\ task' = [variant |-> "cloud", status |-> st,
                completed_at |-> IF st = "completed" /\ c = None THEN t
                                 ELSE IF c # None THEN c ELSE None]
    /\ mErr' = FALSE
    /\ UNCHANGED event

\* CalendarEvent(start_time=..., end_time=...)
NewEvent(v, s, e) ==
    /\ UNCHANGED mOthers
    /\ mOp' = ModelOp("NewEvent", e)
    /\ IF v = "organizer_core" /\ ~ValidateEndTime(e, s)
       THEN /\ mErr' = TRUE
            /\ UNCHANGED <<task, event>>
       ELSE /\ event' = [variant |-> v, start_time |-> s,
                         \* set_end_time (cloud) and create_calendar_event
                         \* (enhanced) add one hour to the start
                         end_time |-> IF v \in {"cloud", "enhanced"} /\ e = None
                                      THEN s + 1 ELSE e]
            /\ mErr' = FALSE
            /\ UNCHANGED task

\* event.start_time = s: no validator is attached to start_time
AssignStartTime(s) ==
    /\ UNCHANGED mOthers
    /\ mOp' = ModelOp("AssignStartTime", None)
    /\ event.variant # "none"
    /\ event' = [event EXCEPT !.start_time = s]
    /\ mErr' = FALSE
    /\ UNCHANGED task

\* event.end_time = e: validate_end_time (organizer_core), set_end_time (cloud)
AssignEndTime(e) ==
    /\ UNCHANGED mOthers
    /\ mOp' = ModelOp("AssignEndTime", None)
    /\ event.variant # "none"
    /\ IF event.variant = "organizer_core" /\ ~ValidateEndTime(e, event.start_time)
       THEN mErr' = TRUE /\ UNCHANGED event
       ELSE /\ event' = [event EXCEPT !.end_time =
                            IF event.variant = "cloud" /\ e = None
                            THEN event.start_time + 1 ELSE e]
            /\ mErr' = FALSE
    /\ UNCHANGED task

MNext ==
    \/ \E v \in MVariants, st \in TaskStatuses, c \in Instants \cup {None} : NewTask(v, st, c)
    \/ \E t \in Instants : MarkCompleted(t)
    \/ \E st \in TaskStatuses : AssignStatus(st)
    \/ \E c \in Instants \cup {None} : AssignCompletedAt(c)
    \/ \E st \in TaskStatuses, c \in Instants \cup {None}, t \in Instants : UpdateTask(st, c, t)
    \/ \E v \in EventVariants, s \in Instants, e \in Instants \cup {None} : NewEvent(v, s, e)
    \/ \E s \in Instants : AssignStartTime(s)
    \/ \E e \in Instants \cup {None} : AssignEndTime(e)

(***************************************************************************)
(* Texts.  A text is a sequence of pieces: a run of len characters that    *)
(* are neither whitespace nor part of a marker ("plain"), one whitespace   *)
(* character ("space"), an occurrence of the pat-th entry of               *)
(* dangerous_patterns written in upper, lower or mixed case ("marker"),    *)
(* or the replacement text ("filtered").                                   *)
(***************************************************************************)
Plain(n) == [kind |-> "plain", len |-> n, pat |-> 0, case |-> "none"]
Space == [kind |-> "space", len |-> 1, pat |-> 0, case |-> "none"]
\* "IGNORE PREVIOUS INSTRUCTIONS", "SYSTEM:", backslash-n backslash-n --- backslash-n
\* backslash-n (the source escapes its backslashes), three backticks and "system"
PatternLen == <<28, 7, 11, 9>>
\* the letters of the first two entries are capitals, the other two have
\* small letters
PatternCase == <<"upper", "upper", "lower", "lower">>
Patterns == 1..4
Cases == {"upper", "lower", "mixed"}
Marker(i, cs) == [kind |-> "marker", len |-> PatternLen[i], pat |-> i, case |-> cs]
Filtered == [kind |-> "filtered", len |-> FilterMarkerLen, pat |-> 0, case |-> "none"]

RECURSIVE TextLength(_)
TextLength(t) == IF t = <<>> THEN 0 ELSE Head(t).len + TextLength(Tail(t))

\* t[:n]; what is left of a piece that is cut is a run of its first characters
RECURSIVE Truncate(_, _)
Truncate(t, n) ==
    IF t = <<>> \/ n = 0 THEN <<>>
    ELSE IF Head(t).len <= n THEN <<Head(t)>> \o Truncate(Tail(t), n - Head(t).len)
    ELSE <<Plain(n)>>

\* t.strip()
RECURSIVE LStrip(_)
LStrip(t) == IF t # <<>> /\ Head(t).kind = "space" THEN LStrip(Tail(t)) ELSE t
RECURSIVE RStrip(_)
RStrip(t) ==
    IF t # <<>> /\ t[Len(t)].kind = "space" THEN RStrip(SubSeq(t, 1, Len(t) - 1)) ELSE t
Strip(t) == RStrip(LStrip(t))

\* t.upper()
Upper(t) == [k \in 1..Len(t) |-> IF t[k].kind = "marker" THEN Marker(t[k].pat, "upper") ELSE t[k]]

\* pattern in t, for the pattern as dangerous_patterns spells it
Contains(t, i) == \E k \in 1..Len(t) : t[k] = Marker(i, PatternCase[i])

\* t.replace(pattern, "[FILTERED]") for the pattern written in case cs
Replace(t, i, cs) == [k \in 1..Len(t) |-> IF t[k] = Marker(i, cs) THEN Filtered ELSE t[k]]

\* the loop of _sanitize_prompt over dangerous_patterns, from entry i on;
\* prompt_upper is computed once, before the loop
RECURSIVE FilterPatterns(_, _, _)
FilterPatterns(t, prompt_upper, i) ==
    IF i > Len(PatternLen) THEN t
    ELSE IF Contains(prompt_upper, i)
         THEN FilterPatterns(Replace(Replace(t, i, PatternCase[i]), i, "lower"), prompt_upper, i + 1)
         ELSE FilterPatterns(t, prompt_upper, i + 1)

\* BaseLLMProvider._sanitize_prompt
SanitizePrompt(t) ==
    LET cut == IF TextLength(t) > MaxPromptLength THEN Truncate(t, MaxPromptLength) ELSE t
    IN Strip(FilterPatterns(cut, Upper(cut), 1))

\* BaseLLMProvider._sanitize_system_prompt
SanitizeSystemPrompt(t) ==
    IF t = <<>> THEN <<>>
    ELSE Strip(IF TextLength(t) > MaxSystemLength THEN Truncate(t, MaxSystemLength) ELSE t)

\* the prompts of the model: up to MaxPieces pieces, among them runs long
\* enough to reach either limit
PlainLens == {1, MaxSystemLength - 5, MaxPromptLength - 10}
PromptPieces ==
    {Space} \cup {Plain(n) : n \in PlainLens} \cup {Marker(i, cs) : i \in Patterns, cs \in Cases}
SeqsUpTo(S, n) == UNION {[1..k -> S] : k \in 0..n}
Prompts == SeqsUpTo(PromptPieces, MaxPieces)
SystemPrompts ==
    SeqsUpTo({Space, Plain(1), Plain(MaxSystemLength - 5), Plain(MaxPromptLength - 10)}, 2)

\* generate_response: clean_prompt = self._sanitize_prompt(prompt) and
\* clean_system_prompt = self._sanitize_system_prompt(system_prompt)
Sanitize ==
    /\ UNCHANGED pOthers
    /\ ~sanitized
    /\ clean_prompt' = SanitizePrompt(prompt)
    /\ clean_system_prompt' = SanitizeSystemPrompt(system_prompt)
    /\ sanitized' = TRUE
    /\ UNCHANGED <<prompt, system_prompt>>

PNext == Sanitize

(***************************************************************************)
(* InputValidator.validate_text.  Its texts have three more kinds of       *)
(* piece: the characters &, < and " ("amp", "lt", "quot") and an           *)
(* occurrence of a word of its dangerous_patterns ("word"): script, which  *)
(* is dangerous right after <, javascript:, data:text/html, vbscript:,     *)
(* onload= and onerror=.                                                   *)
(***************************************************************************)
Amp == [kind |-> "amp", len |-> 1, pat |-> 0, case |-> "none"]
Lt == [kind |-> "lt", len |-> 1, pat |-> 0, case |-> "none"]
Quot == [kind |-> "quot", len |-> 1, pat |-> 0, case |-> "none"]
WordLen == <<6, 11, 14, 9, 7, 8>>
Words == 1..6
Word(w, cs) == [kind |-> "word", len |-> WordLen[w], pat |-> w, case |-> cs]

\* html.escape(t): & becomes &amp; < becomes &lt; " becomes &quot;
RECURSIVE HtmlEscapeText(_)
HtmlEscapeText(t) ==
    IF t = <<>> THEN <<>>
    ELSE (CASE Head(t).kind = "amp" -> <<Amp, Plain(4)>>
            [] Head(t).kind = "lt" -> <<Amp, Plain(3)>>
            [] Head(t).kind = "quot" -> <<Amp, Plain(5)>>
            [] OTHER -> <<Head(t)>>) \o HtmlEscapeText(Tail(t))

\* a scan that compares the text as written
LowerKeepsCase(t) == t

\* t.lower()
Lower(t) == [k \in 1..Len(t) |-> IF t[k].kind = "word" THEN Word(t[k].pat, "lower") ELSE t[k]]

\* any(re.search(pattern, text_lower) for pattern in dangerous_patterns)
SearchDangerous(text_lower) ==
    \E k \in 1..Len(text_lower) :
        \/ text_lower[k] \in {Word(w, "lower") : w \in Words \ {1}}
        \/ /\ text_lower[k] = Lt
           /\ k < Len(text_lower)
           /\ text_lower[k + 1] = Word(1, "lower")

NotValidated == [status |-> "none", text |-> <<>>]
ValidationError == [status |-> "ValidationError", text |-> <<>>]

\* InputValidator.validate_text(t, field_name, lo, hi, html_allowed)
ValidateText(t, lo, hi, html_allowed) ==
    LET stripped == Strip(t)
        escaped == IF html_allowed THEN stripped ELSE HtmlEscapeText(stripped)
    IN  IF TextLength(stripped) < lo \/ TextLength(stripped) > hi THEN ValidationError
        ELSE IF SearchDangerous(Lower(escaped)) THEN ValidationError
        ELSE [status |-> "ok", text |-> escaped]

\* the texts of the model
TextPieces ==
    {Space, Plain(1), Amp, Lt, Quot} \cup {Word(w, cs) : w \in {1, 2, 5}, cs \in Cases}
Texts == SeqsUpTo(TextPieces, MaxPieces)
MinLengths == {0, 2}
MaxLengths == {WordLen[1], DefaultMaxLength}

\* validate_text(text, min_length=..., max_length=..., allow_html=...)
Validate ==
    /\ UNCHANGED vOthers
    /\ validated = NotValidated
    /\ validated' = ValidateText(text, min_length, max_length, allow_html)
    /\ UNCHANGED <<text, allow_html, min_length, max_length, revalidated>>

\* the value validate_text returned is validated again, under the same limits
Revalidate ==
    /\ UNCHANGED vOthers
    /\ validated.status = "ok"
    /\ revalidated = NotValidated
    /\ revalidated' = ValidateText(validated.text, min_length, max_length, allow_html)
    /\ UNCHANGED <<text, allow_html, min_length, max_length, validated>>

VNext == Validate \/ Revalidate

(***************************************************************************)
(* Tag validation.  A tag is modelled by the word it spells, by whether it  *)
(* is typed with capital letters and by whether it is typed with a space    *)
(* before and after it.  The words: two ordinary ones, the empty word, a    *)
(* word of 31 letters, a word with characters outside the tag pattern, and  *)
(* the numbered tags tag1, tag2, ... that fill a list up to the limit.      *)
(***************************************************************************)
TagVariants == {"InputValidator", "TodoItem"}
TagWords == {"work", "urgent", "", "long", "<script>"}
TagWordLen == [w \in TagWords \cup {"tag"} |->
    CASE w = "work" -> 4 [] w = "urgent" -> 6 [] w = "" -> 0
      [] w = "long" -> MaxTagLength + 1 [] w = "<script>" -> 8 [] w = "tag" -> 4]
Tag(w, i, up, pad) == [word |-> w, n |-> i, upper |-> up, padded |-> pad]

\* str.strip() and str.lower() of a tag, len(tag), TAG_PATTERN.match(tag)
TagStrip(t) == [t EXCEPT !.padded = FALSE]
TagLower(t) == [t EXCEPT !.upper = FALSE]
TagLength(t) ==
    TagWordLen[t.word] + (IF t.n >= 10 THEN 1 ELSE 0) + (IF t.padded THEN 2 ELSE 0)
TagMatches(t) == t.word # "<script>" /\ t.word # "" /\ ~t.padded

NoTags == [status |-> "none", tags |-> <<>>]
TagError(v) ==
    [status |-> IF v = "TodoItem" THEN "ValueError" ELSE "ValidationError",
     tags |-> <<>>]

\* validated_tags.append(tag) without the membership test before it
AppendAlways(validated_tags, tag) == Append(validated_tags, tag)

\* if tag not in validated_tags: validated_tags.append(tag)
AppendNew(validated_tags, tag) ==
    IF \E i \in 1..Len(validated_tags) : validated_tags[i] = tag
    THEN validated_tags
    ELSE Append(validated_tags, tag)

\* the for loop over the tags
RECURSIVE TagLoop(_, _, _)
TagLoop(v, rest, validated_tags) ==
    IF rest = <<>> THEN [status |-> "ok", tags |-> validated_tags]
    ELSE LET tag == TagLower(TagStrip(Head(rest)))
         IN  IF TagLength(tag) = 0 THEN TagLoop(v, Tail(rest), validated_tags)
             ELSE IF TagLength(tag) > MaxTagLength THEN TagError(v)
             ELSE IF ~TagMatches(tag) THEN TagError(v)
             ELSE TagLoop(v, Tail(rest), AppendNew(validated_tags, tag))

\* validate_tags(tags); the field of TodoItem is declared with max_items=10,
\* which pydantic checks before it runs the validator
ValidateTags(v, list) ==
    IF Len(list) > MaxTagCount THEN TagError(v) ELSE TagLoop(v, list, <<>>)

\* the lists of the model: up to MaxTags tags drawn freely, then tag1 .. tagN
FreeTags == {Tag(w, 0, up, pad) : w \in TagWords, up \in BOOLEAN, pad \in BOOLEAN}
FillerCounts == {0, MaxTagCount - 1, MaxTagCount}
TagLists ==
    {head \o [i \in 1..n |-> Tag("tag", i, FALSE, FALSE)] :
        head \in SeqsUpTo(FreeTags, MaxTags), n \in FillerCounts}

\* one call of validate_tags
ValidateTagsCall ==
    /\ UNCHANGED tgOthers
    /\ tgResult = NoTags
    /\ tgResult' = ValidateTags(tgVariant, tags)
    /\ UNCHANGED <<tgVariant, tags>>

TgNext == ValidateTagsCall

(***************************************************************************)
(* Rate-limit middleware.  A request is its X-Forwarded-For header (empty   *)
(* when absent), the host of the connection and the path.  The application  *)
(* is built by create_app: the middleware sits outside the layer that turns *)
(* an HTTPException into a response, so what it raises reaches the          *)
(* application's handler for Exception.                                     *)
(***************************************************************************)
ClientIps == {"127.0.0.1", "203.0.113.7", "198.51.100.9"}
ExemptPaths == {"/health", "/", "/docs", "/openapi.json"}
HttpRequests ==
    [forwarded_for : {"", "127.0.0.1", "198.51.100.9"},
     host : {"203.0.113.7", "127.0.0.1"},
     path : {"/api/v1/tasks", "/health"}]

\* RateLimitMiddleware._get_client_ip
GetClientIp(request) ==
    IF request.forwarded_for # "" THEN request.forwarded_for ELSE request.host

\* the while loop of _is_rate_limited: drop the times before window_start
RECURSIVE CleanOld(_, _)
CleanOld(times, window_start) ==
    IF times # <<>> /\ Head(times) < window_start
    THEN CleanOld(Tail(times), window_start)
    ELSE times

\* if current_requests >= limit: return True
OverLimit(times) == Len(times) >= RateLimitPerMinute

\* what the application answers when dispatch raises HTTPException(429, ...,
\* headers={"Retry-After": "60"}): general_exception_handler
GeneralExceptionHandler(exc) ==
    [status |-> 500, retry_after |-> FALSE, handled |-> FALSE]

NoResponse ==
    [client |-> "", path |-> "", before |-> 0,
     response |-> [status |-> 0, retry_after |-> FALSE, handled |-> FALSE]]

\* RateLimitMiddleware.dispatch for one request, and the response the
\* application sends for it
RlDispatch(request) ==
    LET client_ip == GetClientIp(request)
        cleaned == CleanOld(requests[client_ip], rlNow - WindowTicks)
        limited == OverLimit(cleaned)
        skipped == request.path \in ExemptPaths \/ client_ip = "127.0.0.1"
        passed == skipped \/ ~limited
        before == Len(SelectSeq(admitted[client_ip],
                                LAMBDA t : t >= rlNow - WindowTicks))
        answer == IF passed
                  THEN [status |-> 200, retry_after |-> FALSE, handled |-> TRUE]
                  ELSE GeneralExceptionHandler(
                           [status_code |-> 429, retry_after |-> TRUE])
    IN  /\ UNCHANGED rlOthers
        /\ rlCount < MaxRequests
        /\ rlCount' = rlCount + 1
        /\ requests' = IF skipped THEN requests
                       ELSE [requests EXCEPT ![client_ip] =
                                IF limited THEN cleaned ELSE Append(cleaned, rlNow)]
        /\ admitted' = IF passed /\ request.path \notin ExemptPaths
                       THEN [admitted EXCEPT ![client_ip] = Append(@, rlNow)]
                       ELSE admitted
        /\ rlResponse' = [client |-> client_ip, path |-> request.path,
                          before |-> before, response |-> answer]
        /\ UNCHANGED rlNow

\* time passes
RlTick ==
    /\ UNCHANGED rlOthers
    /\ rlNow < MaxClock
    /\ rlNow' = rlNow + 1
    /\ UNCHANGED <<requests, admitted, rlResponse, rlCount>>

RlNext ==
    \/ \E request \in HttpRequests : RlDispatch(request)
    \/ RlTick

(***************************************************************************)
(* POST /api/v1/llm/chat.  FastAPI checks the body against LLMRequest       *)
(* before the handler runs and answers 422 itself; the handler validates    *)
(* the two texts again with validate_text.                                  *)
(***************************************************************************)
NoChat == [status |-> 0, field |-> ""]
ChatRequests == [prompt : Texts, system_prompt : SeqsUpTo(TextPieces, 1)]

\* LLMRequest: prompt has min_length=1, max_length=10000; system_prompt has
\* max_length=1000; the field that fails, or "" when the body is accepted
LLMRequestModel(request) ==
    IF TextLength(request.prompt) < 1 \/ TextLength(request.prompt) > MaxPromptLength
    THEN "prompt"
    ELSE IF TextLength(request.system_prompt) > MaxSystemLength THEN "system_prompt"
    ELSE ""

\* the status the except clauses of chat_with_llm give what
\* llm_service.process_user_input raised
LLMServiceOutcomes == {"ok", AUTHENTICATION, RATE_LIMIT, TIMEOUT, SERVER_ERROR, "Exception"}
LLMErrorStatus(outcome) ==
    CASE outcome = "ok" -> 200
      [] outcome = AUTHENTICATION -> 401
      [] outcome = RATE_LIMIT -> 429
      [] outcome = TIMEOUT -> 504
      [] OTHER -> 500

\* one POST /api/v1/llm/chat: body validation, then chat_with_llm
ChatWithLLM ==
    /\ UNCHANGED chOthers
    /\ chResponse = NoChat
    /\ \E outcome \in LLMServiceOutcomes :
         LET bad_field == LLMRequestModel(chRequest)
             clean_prompt_ == ValidateText(chRequest.prompt, 1, MaxPromptLength, FALSE)
             clean_system_ ==
                 IF chRequest.system_prompt # <<>>
                 THEN ValidateText(chRequest.system_prompt, 0, MaxSystemLength, FALSE)
                 ELSE [status |-> "ok", text |-> <<>>]
         IN  chResponse' =
               IF bad_field # "" THEN [status |-> 422, field |-> bad_field]
               ELSE IF clean_prompt_ = ValidationError
                    THEN [status |-> 400, field |-> "prompt"]
               ELSE IF clean_system_ = ValidationError
                    THEN [status |-> 400, field |-> "system_prompt"]
               ELSE [status |-> LLMErrorStatus(outcome), field |-> ""]
    /\ UNCHANGED chRequest

ChNext == ChatWithLLM

(***************************************************************************)
(* Filenames and paths.  A name is a sequence of characters; the letters   *)
(* are stood for by "a", the characters validate_filename replaces by "<", *)
(* and two whole words are kept as one element each: the directory name    *)
(* "data" and the device name "CON".                                       *)
(***************************************************************************)
PathChars == {"a", ".", "/", " ", "<", "data", "CON"}
CharLen(s) == Len(s) + 3 * Len(SelectSeq(s, LAMBDA c : c = "data"))
                     + 2 * Len(SelectSeq(s, LAMBDA c : c = "CON"))
FpVariants == {"validate_filename", "FileActivity", "FileService",
               "PathSanitizer", "PathSanitizerBase"}
NoPath == [status |-> "none", path |-> <<>>]
PathError == [status |-> "raised", path |-> <<>>]
PathOk(q) == [status |-> "ok", path |-> q]

\* '..' in s
HasDotDot(s) == \E i \in 1..(Len(s) - 1) : s[i] = "." /\ s[i + 1] = "."

\* s.strip(chars)
RECURSIVE StripChars(_, _)
StripChars(s, chars) ==
    IF s # <<>> /\ Head(s) \in chars THEN StripChars(Tail(s), chars)
    ELSE IF s # <<>> /\ s[Len(s)] \in chars
         THEN StripChars(SubSeq(s, 1, Len(s) - 1), chars)
    ELSE s

\* s.split(sep): the pieces between the separators, empty ones included
RECURSIVE Split(_, _, _)
Split(s, sep, piece) ==
    IF s = <<>> THEN <<piece>>
    ELSE IF Head(s) = sep THEN <<piece>> \o Split(Tail(s), sep, <<>>)
    ELSE Split(Tail(s), sep, Append(piece, Head(s)))

\* s.replace(c + c, by), left to right without overlap
RECURSIVE ReplacePair(_, _, _)
ReplacePair(s, c, by) ==
    IF s = <<>> THEN <<>>
    ELSE IF Len(s) >= 2 /\ s[1] = c /\ s[2] = c
         THEN by \o ReplacePair(SubSeq(s, 3, Len(s)), c, by)
    ELSE <<Head(s)>> \o ReplacePair(Tail(s), c, by)

\* "/".join(parts)
RECURSIVE Join(_)
Join(parts) ==
    IF parts = <<>> THEN <<>>
    ELSE IF Len(parts) = 1 THEN parts[1]
    ELSE parts[1] \o <<"/">> \o Join(Tail(parts))

\* the slashes a POSIX path keeps in front: exactly two stay two, any other
\* number is one
Root(s) ==
    IF s = <<>> \/ Head(s) # "/" THEN <<>>
    ELSE IF Len(s) >= 2 /\ s[2] = "/" /\ ~(Len(s) >= 3 /\ s[3] = "/") THEN <<"/", "/">>
    ELSE <<"/">>

\* the components of a path, the empty ones and "." left out
Parts(s) == SelectSeq(Split(s, "/", <<>>), LAMBDA c : c # <<>> /\ c # <<".">>)

\* Path(s).as_posix()
AsPosix(s) ==
    IF Root(s) = <<>> /\ Parts(s) = <<>> THEN <<".">> ELSE Root(s) \o Join(Parts(s))

\* the loop of os.path.normpath over the components
RECURSIVE Collapse(_, _, _)
Collapse(comps, new_comps, absolute) ==
    IF comps = <<>> THEN new_comps
    ELSE LET comp == Head(comps)
         IN  IF comp # <<".", ".">> THEN Collapse(Tail(comps), Append(new_comps, comp), absolute)
             ELSE IF new_comps # <<>> /\ new_comps[Len(new_comps)] # <<".", ".">>
                  THEN Collapse(Tail(comps), SubSeq(new_comps, 1, Len(new_comps) - 1), absolute)
             ELSE IF new_comps = <<>> /\ absolute THEN Collapse(Tail(comps), new_comps, absolute)
             ELSE Collapse(Tail(comps), Append(new_comps, comp), absolute)

\* os.path.normpath(s)
NormPath(s) ==
    LET comps == Collapse(Parts(s), <<>>, Root(s) # <<>>)
    IN  IF Root(s) = <<>> /\ comps = <<>> THEN <<".">> ELSE Root(s) \o Join(comps)

\* s.startswith(prefix)
StartsWith(s, prefix) == Len(s) >= Len(prefix) /\ SubSeq(s, 1, Len(prefix)) = prefix

\* InputValidator.validate_filename(filename)
ValidateFilename(filename) ==
    IF filename = <<>> THEN PathError
    ELSE LET subbed == [i \in 1..Len(filename) |->
                           IF filename[i] \in {"<", "/"} THEN "_" ELSE filename[i]]
             stripped == StripChars(subbed, {".", " "})
         IN  IF CharLen(stripped) > MaxFilenameLength THEN PathError
             ELSE IF stripped = <<>> THEN PathError
             ELSE IF Split(stripped, ".", <<>>)[1] = <<"CON">>
                  THEN PathOk(<<"file_">> \o stripped)
             ELSE PathOk(stripped)

\* FileActivity.validate_filepath(v)
ValidateFilepath(v) ==
    LET normalized == NormPath(v)
    IN  IF v = <<>> THEN PathError
        ELSE IF (HasDotDot(normalized) \/ StartsWith(normalized, <<"/">>))
                /\ ~StartsWith(normalized, <<"data", "/">>) THEN PathError
        ELSE IF CharLen(normalized) > MaxFilepathLength THEN PathError
        ELSE IF \E i \in 1..Len(normalized) : normalized[i] = "<" THEN PathError
        ELSE PathOk(normalized)

\* FileService._validate_path(path), and files_root / safe_path as its callers
\* build it: an absolute safe_path replaces the root
FileServiceValidatePath(path_) ==
    IF path_ = <<>> THEN PathOk(<<".">>)
    ELSE LET replaced == ReplacePair(ReplacePair(path_, ".", <<>>), "/", <<"/">>)
             normalized == AsPosix(replaced)
             cut == IF StartsWith(normalized, <<"/">>) THEN Tail(normalized)
                    ELSE normalized
         IN  PathOk(AsPosix(cut))

\* PathSanitizer.sanitize_path(path, base_dir), the working directory being
\* the permitted root; base_dir is None or "data"
SanitizePath(path_, base_dir) ==
    LET clean_path == NormPath(path_)
    IN  IF HasDotDot(path_) \/ StartsWith(path_, <<"/">>) THEN PathError
        ELSE IF base_dir # <<>> /\ clean_path # base_dir
                /\ ~StartsWith(clean_path, base_dir \o <<"/">>) THEN PathError
        ELSE PathOk(clean_path)

PathCall(v, path_) ==
    CASE v = "validate_filename" -> ValidateFilename(path_)
      [] v = "FileActivity" -> ValidateFilepath(path_)
      [] v = "FileService" -> FileServiceValidatePath(path_)
      [] v = "PathSanitizer" -> SanitizePath(path_, <<>>)
      [] v = "PathSanitizerBase" -> SanitizePath(path_, <<"data">>)

\* one call of one of the functions
ValidatePath ==
    /\ UNCHANGED fpOthers
    /\ fpResult = NoPath
    /\ fpResult' = PathCall(fpVariant, filepath)
    /\ UNCHANGED <<fpVariant, filepath>>

FpNext == ValidatePath

(***************************************************************************)
(* Flat-file backend.  Two assistant processes share one events file; each *)
(* loads it once when it starts and from then on writes its own list over  *)
(* it.  An event is stood for by its uid.                                  *)
(***************************************************************************)
FlatVariants == {"enhanced", "local_demo"}
Instances == {1, 2}
EventData == {"valid", "malformed"}
Holds(list, uid) == \E i \in 1..Len(list) : list[i] = uid

\* a save_events that writes the entities of the file and its own after them
SaveMerged(list, file) ==
    file \o SelectSeq(list, LAMBDA uid : ~Holds(file, uid))

\* save_events: json.dump of self.events over the file
SaveEvents(list, file) == list

\* __init__: self.events = self.load_events()
StartAssistant(i) ==
    /\ UNCHANGED ffOthers
    /\ events' = [events EXCEPT ![i] = events_file]
    /\ running' = running \cup {i}
    /\ UNCHANGED <<ffVariant, events_file, writable, createLog>>

\* create_event / create_calendar_event of process i, save_events included
FlatCreate(i, event_data) ==
    LET uid == Len(createLog) + 1
        appended == Append(events[i], uid)
        built == event_data = "valid"
        wrote == built /\ writable
        \* enhanced: save_events logs the write error; local demo: it raises
        \* and create_event answers False
        ret == IF ffVariant = "enhanced" THEN built ELSE wrote
    IN  /\ UNCHANGED ffOthers
        /\ i \in running
        /\ Len(createLog) < MaxCreates
        /\ events' = IF built THEN [events EXCEPT ![i] = appended] ELSE events
        /\ events_file' = IF wrote THEN SaveEvents(appended, events_file)
                          ELSE events_file
        /\ createLog' = Append(createLog,
                               [instance |-> i, uid |-> uid, ret |-> ret,
                                in_memory |-> Holds(events'[i], uid),
                                in_file |-> Holds(events_file', uid)])
        /\ UNCHANGED <<ffVariant, running, writable>>

\* the permissions of the file, or the space left on the disk, change
SetWritable ==
    /\ UNCHANGED ffOthers
    /\ writable' = ~writable
    /\ UNCHANGED <<ffVariant, events_file, events, running, createLog>>

FfNext ==
    \/ \E i \in Instances : StartAssistant(i)
    \/ \E i \in Instances, event_data \in EventData : FlatCreate(i, event_data)
    \/ SetWritable

(***************************************************************************)
(* Update and delete of CalendarService / TasksService.  Every request is  *)
(* a coroutine on the one connection get_database returns; a coroutine can *)
(* be suspended at each await: after the existence check, after execute,   *)
(* after commit.  The fields an update writes are stood for by the number  *)
(* of its coroutine.                                                       *)
(***************************************************************************)
Coroutines == 1..MaxCoroutines
CoOps == {"update", "delete"}
IdleCoroutine ==
    [op |-> "none", id |-> 0, pc |-> "idle", ret |-> "none", row_at_return |-> None]
CreatedFields == MaxCoroutines + 1

\* a request arrives: the route calls update_event / delete_event
CoStart(r, op, i) ==
    /\ UNCHANGED coOthers
    /\ co[r].pc = "idle"
    /\ co' = [co EXCEPT ![r] = [@ EXCEPT !.op = op, !.id = i, !.pc = "get"]]
    /\ UNCHANGED table

\* existing = await get_event(db, event_id); if not existing: return None / False
CoGet(r) ==
    /\ UNCHANGED coOthers
    /\ co[r].pc = "get"
    /\ co' = [co EXCEPT ![r] =
                IF table[co[r].id] = None
                THEN [@ EXCEPT !.pc = "done",
                               !.ret = IF co[r].op = "update" THEN "None" ELSE "False"]
                ELSE [@ EXCEPT !.pc = "execute"]]
    /\ UNCHANGED table

\* await db.execute(UPDATE ... WHERE id = ?) / await db.execute(DELETE ...)
CoExecute(r) ==
    /\ UNCHANGED coOthers
    /\ co[r].pc = "execute"
    /\ table' = [table EXCEPT ![co[r].id] =
                    IF co[r].op = "delete" THEN None
                    ELSE IF @ = None THEN None ELSE r]
    /\ co' = [co EXCEPT ![r].pc = "commit"]

\* await db.commit(); return event / True
CoCommit(r) ==
    /\ UNCHANGED coOthers
    /\ co[r].pc = "commit"
    /\ co' = [co EXCEPT ![r] =
                [@ EXCEPT !.pc = "done",
                          !.ret = IF co[r].op = "update" THEN "event" ELSE "True",
                          !.row_at_return = table[co[r].id]]]
    /\ UNCHANGED table

CoNext ==
    \/ \E r \in Coroutines, op \in CoOps, i \in Ids : CoStart(r, op, i)
    \/ \E r \in Coroutines : CoGet(r)
    \/ \E r \in Coroutines : CoExecute(r)
    \/ \E r \in Coroutines : CoCommit(r)

(***************************************************************************)
(* Cleanup of old todos.  setup_scheduled_tasks runs cleanup_old_data on a *)
(* thread of its own, create_todo runs on the main thread, and both work   *)
(* on self.todos without a lock.  A thread can be preempted between two    *)
(* statements.  A todo is its uid and its kind: open, completed within the *)
(* last 30 days, completed earlier, or completed without completed_at.     *)
(***************************************************************************)
TodoKinds == {"open", "done_recent", "done_old", "done_undated"}
InitialTodos ==
    {[i \in 1..Len(k) |-> [uid |-> i, kind |-> k[i]]] :
        k \in SeqsUpTo(TodoKinds, MaxTodos)}
IdleCleanup == [pc |-> "idle", original_count |-> 0, kept |-> <<>>, runs |-> 0]
IdleCreate == [pc |-> "idle", made |-> 0]
OpenUids(list) == {list[i].uid : i \in {j \in 1..Len(list) : list[j].kind = "open"}}

\* not todo.completed or (todo.completed_at and todo.completed_at > cutoff_date)
Keeps(todo) == todo.kind \in {"open", "done_recent"}

\* original_count = len(self.todos)
CleanupCount ==
    /\ UNCHANGED clOthers
    /\ cleanup.pc = "idle"
    /\ cleanup.runs < MaxTodos
    /\ cleanup' = [cleanup EXCEPT !.pc = "counted", !.original_count = Len(todos)]
    /\ UNCHANGED <<todos, todos_file, creating, expected>>

\* the list comprehension over self.todos
CleanupScan ==
    /\ UNCHANGED clOthers
    /\ cleanup.pc = "counted"
    /\ cleanup' = [cleanup EXCEPT !.pc = "scanned", !.kept = SelectSeq(todos, Keeps)]
    /\ UNCHANGED <<todos, todos_file, creating, expected>>

\* self.todos = [...]
CleanupAssign ==
    /\ UNCHANGED clOthers
    /\ cleanup.pc = "scanned"
    /\ todos' = cleanup.kept
    /\ cleanup' = [cleanup EXCEPT !.pc = "assigned"]
    /\ UNCHANGED <<todos_file, creating, expected>>

\* removed_count = original_count - len(self.todos); save_todos() when positive
CleanupSave ==
    /\ UNCHANGED clOthers
    /\ cleanup.pc = "assigned"
    /\ todos_file' = IF cleanup.original_count - Len(todos) > 0 THEN todos
                     ELSE todos_file
    /\ cleanup' = [IdleCleanup EXCEPT !.runs = cleanup.runs + 1]
    /\ UNCHANGED <<todos, creating, expected>>

\* create_todo: todo = TodoItem(...); self.todos.append(todo).  While the
\* cleanup is between its comprehension and its assignment, self.todos still
\* refers to the old list, which the assignment then drops.
CreateAppend ==
    /\ UNCHANGED clOthers
    /\ creating.pc = "idle"
    /\ creating.made < MaxTodos
    /\ LET uid == MaxTodos + creating.made + 1
       IN  /\ todos' = Append(todos, [uid |-> uid, kind |-> "open"])
           /\ expected' = expected \cup {uid}
    /\ creating' = [pc |-> "appended", made |-> creating.made + 1]
    /\ UNCHANGED <<todos_file, cleanup>>

\* create_todo: self.save_todos(); return True
CreateSave ==
    /\ UNCHANGED clOthers
    /\ creating.pc = "appended"
    /\ todos_file' = todos
    /\ creating' = [creating EXCEPT !.pc = "idle"]
    /\ UNCHANGED <<todos, cleanup, expected>>

ClNext ==
    \/ CleanupCount \/ CleanupScan \/ CleanupAssign \/ CleanupSave
    \/ CreateAppend \/ CreateSave

(***************************************************************************)
(* Sync from Todoist and CalDAV.  A remote item is its external id          *)
(* (todoist_task["id"], the UID of the VEVENT) and whether the local model  *)
(* can be built from it; a listing may hold an id more than once (the       *)
(* CalDAV search expands recurring events).  A local row is the service it  *)
(* came from and the external id stored in its metadata.                    *)
(***************************************************************************)
SyncServices == {"todoist", "caldav"}
RemoteItems == [ext_id : Ids, ok : BOOLEAN]
Listings == SeqsUpTo(RemoteItems, MaxRemote)
NeverRun == [seen |-> FALSE, unchanged |-> FALSE, synced |-> 0, raised |-> FALSE]

\* a lookup that reads the key of the other service
ExistingUnderOtherKey(table_, svc, ext_id) ==
    \E i \in 1..Len(table_) : table_[i].source # svc /\ table_[i].ext_id = ext_id

\* SELECT id FROM ... WHERE json_extract(metadata, '$.todoist_id') = ?
\* (for CalDAV: '$.caldav_uid', on calendar_events)
Existing(table_, svc, ext_id) ==
    \E i \in 1..Len(table_) : table_[i].source = svc /\ table_[i].ext_id = ext_id

\* the for loop of sync_tasks_to_local / sync_events_to_local: an item that
\* cannot be converted ends the Todoist run with the exception and is skipped
\* by the CalDAV run
RECURSIVE SyncLoop(_, _, _, _)
SyncLoop(svc, items, table_, synced_count) ==
    IF items = <<>>
    THEN [rows |-> table_, synced |-> synced_count, raised |-> FALSE]
    ELSE LET item == Head(items)
         IN  IF ~item.ok
             THEN IF svc = "todoist"
                  THEN [rows |-> table_, synced |-> synced_count, raised |-> TRUE]
                  ELSE SyncLoop(svc, Tail(items), table_, synced_count)
             ELSE IF Existing(table_, svc, item.ext_id)
                  THEN SyncLoop(svc, Tail(items), table_, synced_count)
             ELSE SyncLoop(svc, Tail(items),
                           Append(table_, [source |-> svc, ext_id |-> item.ext_id]),
                           synced_count + 1)

\* one run of sync_tasks_to_local / sync_events_to_local
SyncToLocal ==
    LET run == SyncLoop(syService, remote, rows, 0)
    IN  /\ UNCHANGED syOthers
        /\ syncs < MaxSyncs
        /\ syncs' = syncs + 1
        /\ rows' = run.rows
        /\ lastRun' = [seen |-> TRUE, unchanged |-> lastRun.seen,
                       synced |-> run.synced, raised |-> run.raised]
        /\ UNCHANGED <<syService, remote>>

\* the tasks of the Todoist account or the events of the calendar change
RemoteChange(listing) ==
    /\ UNCHANGED syOthers
    /\ listing # remote
    /\ remote' = listing
    /\ lastRun' = [lastRun EXCEPT !.seen = FALSE]
    /\ UNCHANGED <<syService, rows, syncs>>

SyNext ==
    \/ SyncToLocal
    \/ \E listing \in Listings : RemoteChange(listing)

NoBundle == [t \in {"calendar_events", "todos", "contacts"} |-> <<>>]

\* a provider instance after __init__, no call issued; the other
\* subsystems stay idle
ProvInit ==
    /\ provider \in Providers
    /\ now = StartTime
    /\ last_request_time = 0
    /\ pc = [c \in Callers |-> "idle"]
    /\ wake = [c \in Callers |-> 0]
    /\ dispatchTime = [c \in Callers |-> 0]
    /\ dispatched = <<>>
    /\ cause = [c \in Callers |-> NoEvent]
    /\ result = [c \in Callers |-> NoError]
    /\ calls = 0
    /\ exVariant = "enhanced"
    /\ exLLM = NoText("none")
    /\ exResult = NoResult
    /\ dVariant = "enhanced"
    /\ dIntent = "other"
    /\ dBundle = NoBundle
    /\ dMemory = {}
    /\ dStored = {}
    /\ dFlags = <<>>
    /\ dReply = NoReply
    /\ sVariant = "organizer_api"
    /\ store = [i \in Ids |-> NoRow]
    /\ written = [i \in Ids |-> NoRow]
    /\ sOp = NoOp
    /\ task = NoTask
    /\ event = NoCalendarEvent
    /\ mErr = FALSE
    /\ mOp = NoModelOp
    /\ prompt = <<>>
    /\ system_prompt = <<>>
    /\ clean_prompt = <<>>
    /\ clean_system_prompt = <<>>
    /\ sanitized = FALSE
    /\ text = <<>>
    /\ allow_html = FALSE
    /\ min_length = 0
    /\ max_length = DefaultMaxLength
    /\ validated = NotValidated
    /\ revalidated = NotValidated
    /\ tgVariant = "InputValidator"
    /\ tags = <<>>
    /\ tgResult = NoTags
    /\ requests = [c \in ClientIps |-> <<>>]
    /\ rlNow = WindowTicks
    /\ admitted = [c \in ClientIps |-> <<>>]
    /\ rlResponse = NoResponse
    /\ rlCount = 0
    /\ chRequest = [prompt |-> <<>>, system_prompt |-> <<>>]
    /\ chResponse = NoChat
    /\ fpVariant = "validate_filename"
    /\ filepath = <<>>
    /\ fpResult = NoPath
    /\ ffVariant = "enhanced"
    /\ events_file = <<>>
    /\ events = [i \in Instances |-> <<>>]
    /\ running = {}
    /\ writable = TRUE
    /\ createLog = <<>>
    /\ table = [i \in Ids |-> CreatedFields]
    /\ co = [r \in Coroutines |-> IdleCoroutine]
    /\ todos = <<>>
    /\ todos_file = <<>>
    /\ expected = {}
    /\ cleanup = IdleCleanup
    /\ creating = IdleCreate
    /\ syService = "todoist"
    /\ remote = <<>>
    /\ rows = <<>>
    /\ lastRun = NeverRun
    /\ syncs = 0

\* the engine variant and the outcome of its LLM call, before extraction
ExInit ==
    /\ provider = "demo"
    /\ now = StartTime
    /\ last_request_time = 0
    /\ pc = [c \in Callers |-> "idle"]
    /\ wake = [c \in Callers |-> 0]
    /\ dispatchTime = [c \in Callers |-> 0]
    /\ dispatched = <<>>
    /\ cause = [c \in Callers |-> NoEvent]
    /\ result = [c \in Callers |-> NoError]
    /\ calls = 0
    /\ exVariant \in ExVariants
    /\ exLLM \in LLMOutputs
    /\ exResult = NoResult
    /\ dVariant = "enhanced"
    /\ dIntent = "other"
    /\ dBundle = NoBundle
    /\ dMemory = {}
    /\ dStored = {}
    /\ dFlags = <<>>
    /\ dReply = NoReply
    /\ sVariant = "organizer_api"
    /\ store = [i \in Ids |-> NoRow]
    /\ written = [i \in Ids |-> NoRow]
    /\ sOp = NoOp
    /\ task = NoTask
    /\ event = NoCalendarEvent
    /\ mErr = FALSE
    /\ mOp = NoModelOp
    /\ prompt = <<>>
    /\ system_prompt = <<>>
    /\ clean_prompt = <<>>
    /\ clean_system_prompt = <<>>
    /\ sanitized = FALSE
    /\ text = <<>>
    /\ allow_html = FALSE
    /\ min_length = 0
    /\ max_length = DefaultMaxLength
    /\ validated = NotValidated
    /\ revalidated = NotValidated
    /\ tgVariant = "InputValidator"
    /\ tags = <<>>
    /\ tgResult = NoTags
    /\ requests = [c \in ClientIps |-> <<>>]
    /\ rlNow = WindowTicks
    /\ admitted = [c \in ClientIps |-> <<>>]
    /\ rlResponse = NoResponse
    /\ rlCount = 0
    /\ chRequest = [prompt |-> <<>>, system_prompt |-> <<>>]
    /\ chResponse = NoChat
    /\ fpVariant = "validate_filename"
    /\ filepath = <<>>
    /\ fpResult = NoPath
    /\ ffVariant = "enhanced"
    /\ events_file = <<>>
    /\ events = [i \in Instances |-> <<>>]
    /\ running = {}
    /\ writable = TRUE
    /\ createLog = <<>>
    /\ table = [i \in Ids |-> CreatedFields]
    /\ co = [r \in Coroutines |-> IdleCoroutine]
    /\ todos = <<>>
    /\ todos_file = <<>>
    /\ expected = {}
    /\ cleanup = IdleCleanup
    /\ creating = IdleCreate
    /\ syService = "todoist"
    /\ remote = <<>>
    /\ rows = <<>>
    /\ lastRun = NeverRun
    /\ syncs = 0

\* an assistant with empty collections and the bundle its extraction
\* engine returned; only the cloud service routes on an intent
DInit ==
    /\ provider = "demo"
    /\ now = StartTime
    /\ last_request_time = 0
    /\ pc = [c \in Callers |-> "idle"]
    /\ wake = [c \in Callers |-> 0]
    /\ dispatchTime = [c \in Callers |-> 0]
    /\ dispatched = <<>>
    /\ cause = [c \in Callers |-> NoEvent]
    /\ result = [c \in Callers |-> NoError]
    /\ calls = 0
    /\ exVariant = "enhanced"
    /\ exLLM = NoText("none")
    /\ exResult = NoResult
    /\ dVariant \in DVariants
    /\ dIntent \in Intents
    /\ dVariant # "cloud" => dIntent = "other"
    /\ dBundle \in Bundles
    /\ dMemory = {}
    /\ dStored = {}
    /\ dFlags = <<>>
    /\ dReply = NoReply
    /\ sVariant = "organizer_api"
    /\ store = [i \in Ids |-> NoRow]
    /\ written = [i \in Ids |-> NoRow]
    /\ sOp = NoOp
    /\ task = NoTask
    /\ event = NoCalendarEvent
    /\ mErr = FALSE
    /\ mOp = NoModelOp
    /\ prompt = <<>>
    /\ system_prompt = <<>>
    /\ clean_prompt = <<>>
    /\ clean_system_prompt = <<>>
    /\ sanitized = FALSE
    /\ text = <<>>
    /\ allow_html = FALSE
    /\ min_length = 0
    /\ max_length = DefaultMaxLength
    /\ validated = NotValidated
    /\ revalidated = NotValidated
    /\ tgVariant = "InputValidator"
    /\ tags = <<>>
    /\ tgResult = NoTags
    /\ requests = [c \in ClientIps |-> <<>>]
    /\ rlNow = WindowTicks
    /\ admitted = [c \in ClientIps |-> <<>>]
    /\ rlResponse = NoResponse
    /\ rlCount = 0
    /\ chRequest = [prompt |-> <<>>, system_prompt |-> <<>>]
    /\ chResponse = NoChat
    /\ fpVariant = "validate_filename"
    /\ filepath = <<>>
    /\ fpResult = NoPath
    /\ ffVariant = "enhanced"
    /\ events_file = <<>>
    /\ events = [i \in Instances |-> <<>>]
    /\ running = {}
    /\ writable = TRUE
    /\ createLog = <<>>
    /\ table = [i \in Ids |-> CreatedFields]
    /\ co = [r \in Coroutines |-> IdleCoroutine]
    /\ todos = <<>>
    /\ todos_file = <<>>
    /\ expected = {}
    /\ cleanup = IdleCleanup
    /\ creating = IdleCreate
    /\ syService = "todoist"
    /\ remote = <<>>
    /\ rows = <<>>
    /\ lastRun = NeverRun
    /\ syncs = 0

\* a service variant on an empty database
SInit ==
    /\ provider = "demo"
    /\ now = StartTime
    /\ last_request_time = 0
    /\ pc = [c \in Callers |-> "idle"]
    /\ wake = [c \in Callers |-> 0]
    /\ dispatchTime = [c \in Callers |-> 0]
    /\ dispatched = <<>>
    /\ cause = [c \in Callers |-> NoEvent]
    /\ result = [c \in Callers |-> NoError]
    /\ calls = 0
    /\ exVariant = "enhanced"
    /\ exLLM = NoText("none")
    /\ exResult = NoResult
    /\ dVariant = "enhanced"
    /\ dIntent = "other"
    /\ dBundle = NoBundle
    /\ dMemory = {}
    /\ dStored = {}
    /\ dFlags = <<>>
    /\ dReply = NoReply
    /\ sVariant \in SVariants
    /\ store = [i \in Ids |-> NoRow]
    /\ written = [i \in Ids |-> NoRow]
    /\ sOp = NoOp
    /\ task = NoTask
    /\ event = NoCalendarEvent
    /\ mErr = FALSE
    /\ mOp = NoModelOp
    /\ prompt = <<>>
    /\ system_prompt = <<>>
    /\ clean_prompt = <<>>
    /\ clean_system_prompt = <<>>
    /\ sanitized = FALSE
    /\ text = <<>>
    /\ allow_html = FALSE
    /\ min_length = 0
    /\ max_length = DefaultMaxLength
    /\ validated = NotValidated
    /\ revalidated = NotValidated
    /\ tgVariant = "InputValidator"
    /\ tags = <<>>
    /\ tgResult = NoTags
    /\ requests = [c \in ClientIps |-> <<>>]
    /\ rlNow = WindowTicks
    /\ admitted = [c \in ClientIps |-> <<>>]
    /\ rlResponse = NoResponse
    /\ rlCount = 0
    /\ chRequest = [prompt |-> <<>>, system_prompt |-> <<>>]
    /\ chResponse = NoChat
    /\ fpVariant = "validate_filename"
    /\ filepath = <<>>
    /\ fpResult = NoPath
    /\ ffVariant = "enhanced"
    /\ events_file = <<>>
    /\ events = [i \in Instances |-> <<>>]
    /\ running = {}
    /\ writable = TRUE
    /\ createLog = <<>>
    /\ table = [i \in Ids |-> CreatedFields]
    /\ co = [r \in Coroutines |-> IdleCoroutine]
    /\ todos = <<>>
    /\ todos_file = <<>>
    /\ expected = {}
    /\ cleanup = IdleCleanup
    /\ creating = IdleCreate
    /\ syService = "todoist"
    /\ remote = <<>>
    /\ rows = <<>>
    /\ lastRun = NeverRun
    /\ syncs = 0

\* no model object constructed yet
MInit ==
    /\ provider = "demo"
    /\ now = StartTime
    /\ last_request_time = 0
    /\ pc = [c \in Callers |-> "idle"]
    /\ wake = [c \in Callers |-> 0]
    /\ dispatchTime = [c \in Callers |-> 0]
    /\ dispatched = <<>>
    /\ cause = [c \in Callers |-> NoEvent]
    /\ result = [c \in Callers |-> NoError]
    /\ calls = 0
    /\ exVariant = "enhanced"
    /\ exLLM = NoText("none")
    /\ exResult = NoResult
    /\ dVariant = "enhanced"
    /\ dIntent = "other"
    /\ dBundle = NoBundle
    /\ dMemory = {}
    /\ dStored = {}
    /\ dFlags = <<>>
    /\ dReply = NoReply
    /\ sVariant = "organizer_api"
    /\ store = [i \in Ids |-> NoRow]
    /\ written = [i \in Ids |-> NoRow]
    /\ sOp = NoOp
    /\ task = NoTask
    /\ event = NoCalendarEvent
    /\ mErr = FALSE
    /\ mOp = NoModelOp
    /\ prompt = <<>>
    /\ system_prompt = <<>>
    /\ clean_prompt = <<>>
    /\ clean_system_prompt = <<>>
    /\ sanitized = FALSE
    /\ text = <<>>
    /\ allow_html = FALSE
    /\ min_length = 0
    /\ max_length = DefaultMaxLength
    /\ validated = NotValidated
    /\ revalidated = NotValidated
    /\ tgVariant = "InputValidator"
    /\ tags = <<>>
    /\ tgResult = NoTags
    /\ requests = [c \in ClientIps |-> <<>>]
    /\ rlNow = WindowTicks
    /\ admitted = [c \in ClientIps |-> <<>>]
    /\ rlResponse = NoResponse
    /\ rlCount = 0
    /\ chRequest = [prompt |-> <<>>, system_prompt |-> <<>>]
    /\ chResponse = NoChat
    /\ fpVariant = "validate_filename"
    /\ filepath = <<>>
    /\ fpResult = NoPath
    /\ ffVariant = "enhanced"
    /\ events_file = <<>>
    /\ events = [i \in Instances |-> <<>>]
    /\ running = {}
    /\ writable = TRUE
    /\ createLog = <<>>
    /\ table = [i \in Ids |-> CreatedFields]
    /\ co = [r \in Coroutines |-> IdleCoroutine]
    /\ todos = <<>>
    /\ todos_file = <<>>
    /\ expected = {}
    /\ cleanup = IdleCleanup
    /\ creating = IdleCreate
    /\ syService = "todoist"
    /\ remote = <<>>
    /\ rows = <<>>
    /\ lastRun = NeverRun
    /\ syncs = 0

\* the arguments of one generate_response call, before sanitization
PInit ==
    /\ provider = "demo"
    /\ now = StartTime
    /\ last_request_time = 0
    /\ pc = [c \in Callers |-> "idle"]
    /\ wake = [c \in Callers |-> 0]
    /\ dispatchTime = [c \in Callers |-> 0]
    /\ dispatched = <<>>
    /\ cause = [c \in Callers |-> NoEvent]
    /\ result = [c \in Callers |-> NoError]
    /\ calls = 0
    /\ exVariant = "enhanced"
    /\ exLLM = NoText("none")
    /\ exResult = NoResult
    /\ dVariant = "enhanced"
    /\ dIntent = "other"
    /\ dBundle = NoBundle
    /\ dMemory = {}
    /\ dStored = {}
    /\ dFlags = <<>>
    /\ dReply = NoReply
    /\ sVariant = "organizer_api"
    /\ store = [i \in Ids |-> NoRow]
    /\ written = [i \in Ids |-> NoRow]
    /\ sOp = NoOp
    /\ task = NoTask
    /\ event = NoCalendarEvent
    /\ mErr = FALSE
    /\ mOp = NoModelOp
    /\ prompt \in Prompts
    /\ system_prompt \in SystemPrompts
    /\ clean_prompt = <<>>
    /\ clean_system_prompt = <<>>
    /\ sanitized = FALSE
    /\ text = <<>>
    /\ allow_html = FALSE
    /\ min_length = 0
    /\ max_length = DefaultMaxLength
    /\ validated = NotValidated
    /\ revalidated = NotValidated
    /\ tgVariant = "InputValidator"
    /\ tags = <<>>
    /\ tgResult = NoTags
    /\ requests = [c \in ClientIps |-> <<>>]
    /\ rlNow = WindowTicks
    /\ admitted = [c \in ClientIps |-> <<>>]
    /\ rlResponse = NoResponse
    /\ rlCount = 0
    /\ chRequest = [prompt |-> <<>>, system_prompt |-> <<>>]
    /\ chResponse = NoChat
    /\ fpVariant = "validate_filename"
    /\ filepath = <<>>
    /\ fpResult = NoPath
    /\ ffVariant = "enhanced"
    /\ events_file = <<>>
    /\ events = [i \in Instances |-> <<>>]
    /\ running = {}
    /\ writable = TRUE
    /\ createLog = <<>>
    /\ table = [i \in Ids |-> CreatedFields]
    /\ co = [r \in Coroutines |-> IdleCoroutine]
    /\ todos = <<>>
    /\ todos_file = <<>>
    /\ expected = {}
    /\ cleanup = IdleCleanup
    /\ creating = IdleCreate
    /\ syService = "todoist"
    /\ remote = <<>>
    /\ rows = <<>>
    /\ lastRun = NeverRun
    /\ syncs = 0

\* the arguments of one validate_text call
VInit ==
    /\ provider = "demo"
    /\ now = StartTime
    /\ last_request_time = 0
    /\ pc = [c \in Callers |-> "idle"]
    /\ wake = [c \in Callers |-> 0]
    /\ dispatchTime = [c \in Callers |-> 0]
    /\ dispatched = <<>>
    /\ cause = [c \in Callers |-> NoEvent]
    /\ result = [c \in Callers |-> NoError]
    /\ calls = 0
    /\ exVariant = "enhanced"
    /\ exLLM = NoText("none")
    /\ exResult = NoResult
    /\ dVariant = "enhanced"
    /\ dIntent = "other"
    /\ dBundle = NoBundle
    /\ dMemory = {}
    /\ dStored = {}
    /\ dFlags = <<>>
    /\ dReply = NoReply
    /\ sVariant = "organizer_api"
    /\ store = [i \in Ids |-> NoRow]
    /\ written = [i \in Ids |-> NoRow]
    /\ sOp = NoOp
    /\ task = NoTask
    /\ event = NoCalendarEvent
    /\ mErr = FALSE
    /\ mOp = NoModelOp
    /\ prompt = <<>>
    /\ system_prompt = <<>>
    /\ clean_prompt = <<>>
    /\ clean_system_prompt = <<>>
    /\ sanitized = FALSE
    /\ text \in Texts
    /\ allow_html \in BOOLEAN
    /\ min_length \in MinLengths
    /\ max_length \in MaxLengths
    /\ validated = NotValidated
    /\ revalidated = NotValidated
    /\ tgVariant = "InputValidator"
    /\ tags = <<>>
    /\ tgResult = NoTags
    /\ requests = [c \in ClientIps |-> <<>>]
    /\ rlNow = WindowTicks
    /\ admitted = [c \in ClientIps |-> <<>>]
    /\ rlResponse = NoResponse
    /\ rlCount = 0
    /\ chRequest = [prompt |-> <<>>, system_prompt |-> <<>>]
    /\ chResponse = NoChat
    /\ fpVariant = "validate_filename"
    /\ filepath = <<>>
    /\ fpResult = NoPath
    /\ ffVariant = "enhanced"
    /\ events_file = <<>>
    /\ events = [i \in Instances |-> <<>>]
    /\ running = {}
    /\ writable = TRUE
    /\ createLog = <<>>
    /\ table = [i \in Ids |-> CreatedFields]
    /\ co = [r \in Coroutines |-> IdleCoroutine]
    /\ todos = <<>>
    /\ todos_file = <<>>
    /\ expected = {}
    /\ cleanup = IdleCleanup
    /\ creating = IdleCreate
    /\ syService = "todoist"
    /\ remote = <<>>
    /\ rows = <<>>
    /\ lastRun = NeverRun
    /\ syncs = 0

\* the arguments of one validate_tags call
TgInit ==
    /\ provider = "demo"
    /\ now = StartTime
    /\ last_request_time = 0
    /\ pc = [c \in Callers |-> "idle"]
    /\ wake = [c \in Callers |-> 0]
    /\ dispatchTime = [c \in Callers |-> 0]
    /\ dispatched = <<>>
    /\ cause = [c \in Callers |-> NoEvent]
    /\ result = [c \in Callers |-> NoError]
    /\ calls = 0
    /\ exVariant = "enhanced"
    /\ exLLM = NoText("none")
    /\ exResult = NoResult
    /\ dVariant = "enhanced"
    /\ dIntent = "other"
    /\ dBundle = NoBundle
    /\ dMemory = {}
    /\ dStored = {}
    /\ dFlags = <<>>
    /\ dReply = NoReply
    /\ sVariant = "organizer_api"
    /\ store = [i \in Ids |-> NoRow]
    /\ written = [i \in Ids |-> NoRow]
    /\ sOp = NoOp
    /\ task = NoTask
    /\ event = NoCalendarEvent
    /\ mErr = FALSE
    /\ mOp = NoModelOp
    /\ prompt = <<>>
    /\ system_prompt = <<>>
    /\ clean_prompt = <<>>
    /\ clean_system_prompt = <<>>
    /\ sanitized = FALSE
    /\ text = <<>>
    /\ allow_html = FALSE
    /\ min_length = 0
    /\ max_length = DefaultMaxLength
    /\ validated = NotValidated
    /\ revalidated = NotValidated
    /\ tgVariant \in TagVariants
    /\ tags \in TagLists
    /\ tgResult = NoTags
    /\ requests = [c \in ClientIps |-> <<>>]
    /\ rlNow = WindowTicks
    /\ admitted = [c \in ClientIps |-> <<>>]
    /\ rlResponse = NoResponse
    /\ rlCount = 0
    /\ chRequest = [prompt |-> <<>>, system_prompt |-> <<>>]
    /\ chResponse = NoChat
    /\ fpVariant = "validate_filename"
    /\ filepath = <<>>
    /\ fpResult = NoPath
    /\ ffVariant = "enhanced"
    /\ events_file = <<>>
    /\ events = [i \in Instances |-> <<>>]
    /\ running = {}
    /\ writable = TRUE
    /\ createLog = <<>>
    /\ table = [i \in Ids |-> CreatedFields]
    /\ co = [r \in Coroutines |-> IdleCoroutine]
    /\ todos = <<>>
    /\ todos_file = <<>>
    /\ expected = {}
    /\ cleanup = IdleCleanup
    /\ creating = IdleCreate
    /\ syService = "todoist"
    /\ remote = <<>>
    /\ rows = <<>>
    /\ lastRun = NeverRun
    /\ syncs = 0

\* the middleware after __init__: no request counted
RlInit ==
    /\ provider = "demo"
    /\ now = StartTime
    /\ last_request_time = 0
    /\ pc = [c \in Callers |-> "idle"]
    /\ wake = [c \in Callers |-> 0]
    /\ dispatchTime = [c \in Callers |-> 0]
    /\ dispatched = <<>>
    /\ cause = [c \in Callers |-> NoEvent]
    /\ result = [c \in Callers |-> NoError]
    /\ calls = 0
    /\ exVariant = "enhanced"
    /\ exLLM = NoText("none")
    /\ exResult = NoResult
    /\ dVariant = "enhanced"
    /\ dIntent = "other"
    /\ dBundle = NoBundle
    /\ dMemory = {}
    /\ dStored = {}
    /\ dFlags = <<>>
    /\ dReply = NoReply
    /\ sVariant = "organizer_api"
    /\ store = [i \in Ids |-> NoRow]
    /\ written = [i \in Ids |-> NoRow]
    /\ sOp = NoOp
    /\ task = NoTask
    /\ event = NoCalendarEvent
    /\ mErr = FALSE
    /\ mOp = NoModelOp
    /\ prompt = <<>>
    /\ system_prompt = <<>>
    /\ clean_prompt = <<>>
    /\ clean_system_prompt = <<>>
    /\ sanitized = FALSE
    /\ text = <<>>
    /\ allow_html = FALSE
    /\ min_length = 0
    /\ max_length = DefaultMaxLength
    /\ validated = NotValidated
    /\ revalidated = NotValidated
    /\ tgVariant = "InputValidator"
    /\ tags = <<>>
    /\ tgResult = NoTags
    /\ requests = [c \in ClientIps |-> <<>>]
    /\ rlNow = WindowTicks
    /\ admitted = [c \in ClientIps |-> <<>>]
    /\ rlResponse = NoResponse
    /\ rlCount = 0
    /\ chRequest = [prompt |-> <<>>, system_prompt |-> <<>>]
    /\ chResponse = NoChat
    /\ fpVariant = "validate_filename"
    /\ filepath = <<>>
    /\ fpResult = NoPath
    /\ ffVariant = "enhanced"
    /\ events_file = <<>>
    /\ events = [i \in Instances |-> <<>>]
    /\ running = {}
    /\ writable = TRUE
    /\ createLog = <<>>
    /\ table = [i \in Ids |-> CreatedFields]
    /\ co = [r \in Coroutines |-> IdleCoroutine]
    /\ todos = <<>>
    /\ todos_file = <<>>
    /\ expected = {}
    /\ cleanup = IdleCleanup
    /\ creating = IdleCreate
    /\ syService = "todoist"
    /\ remote = <<>>
    /\ rows = <<>>
    /\ lastRun = NeverRun
    /\ syncs = 0

\* one request body posted to /api/v1/llm/chat
ChInit ==
    /\ provider = "demo"
    /\ now = StartTime
    /\ last_request_time = 0
    /\ pc = [c \in Callers |-> "idle"]
    /\ wake = [c \in Callers |-> 0]
    /\ dispatchTime = [c \in Callers |-> 0]
    /\ dispatched = <<>>
    /\ cause = [c \in Callers |-> NoEvent]
    /\ result = [c \in Callers |-> NoError]
    /\ calls = 0
    /\ exVariant = "enhanced"
    /\ exLLM = NoText("none")
    /\ exResult = NoResult
    /\ dVariant = "enhanced"
    /\ dIntent = "other"
    /\ dBundle = NoBundle
    /\ dMemory = {}
    /\ dStored = {}
    /\ dFlags = <<>>
    /\ dReply = NoReply
    /\ sVariant = "organizer_api"
    /\ store = [i \in Ids |-> NoRow]
    /\ written = [i \in Ids |-> NoRow]
    /\ sOp = NoOp
    /\ task = NoTask
    /\ event = NoCalendarEvent
    /\ mErr = FALSE
    /\ mOp = NoModelOp
    /\ prompt = <<>>
    /\ system_prompt = <<>>
    /\ clean_prompt = <<>>
    /\ clean_system_prompt = <<>>
    /\ sanitized = FALSE
    /\ text = <<>>
    /\ allow_html = FALSE
    /\ min_length = 0
    /\ max_length = DefaultMaxLength
    /\ validated = NotValidated
    /\ revalidated = NotValidated
    /\ tgVariant = "InputValidator"
    /\ tags = <<>>
    /\ tgResult = NoTags
    /\ requests = [c \in ClientIps |-> <<>>]
    /\ rlNow = WindowTicks
    /\ admitted = [c \in ClientIps |-> <<>>]
    /\ rlResponse = NoResponse
    /\ rlCount = 0
    /\ chRequest \in ChatRequests
    /\ chResponse = NoChat
    /\ fpVariant = "validate_filename"
    /\ filepath = <<>>
    /\ fpResult = NoPath
    /\ ffVariant = "enhanced"
    /\ events_file = <<>>
    /\ events = [i \in Instances |-> <<>>]
    /\ running = {}
    /\ writable = TRUE
    /\ createLog = <<>>
    /\ table = [i \in Ids |-> CreatedFields]
    /\ co = [r \in Coroutines |-> IdleCoroutine]
    /\ todos = <<>>
    /\ todos_file = <<>>
    /\ expected = {}
    /\ cleanup = IdleCleanup
    /\ creating = IdleCreate
    /\ syService = "todoist"
    /\ remote = <<>>
    /\ rows = <<>>
    /\ lastRun = NeverRun
    /\ syncs = 0

\* the argument of one call of a filename or path validator
FpInit ==
    /\ provider = "demo"
    /\ now = StartTime
    /\ last_request_time = 0
    /\ pc = [c \in Callers |-> "idle"]
    /\ wake = [c \in Callers |-> 0]
    /\ dispatchTime = [c \in Callers |-> 0]
    /\ dispatched = <<>>
    /\ cause = [c \in Callers |-> NoEvent]
    /\ result = [c \in Callers |-> NoError]
    /\ calls = 0
    /\ exVariant = "enhanced"
    /\ exLLM = NoText("none")
    /\ exResult = NoResult
    /\ dVariant = "enhanced"
    /\ dIntent = "other"
    /\ dBundle = NoBundle
    /\ dMemory = {}
    /\ dStored = {}
    /\ dFlags = <<>>
    /\ dReply = NoReply
    /\ sVariant = "organizer_api"
    /\ store = [i \in Ids |-> NoRow]
    /\ written = [i \in Ids |-> NoRow]
    /\ sOp = NoOp
    /\ task = NoTask
    /\ event = NoCalendarEvent
    /\ mErr = FALSE
    /\ mOp = NoModelOp
    /\ prompt = <<>>
    /\ system_prompt = <<>>
    /\ clean_prompt = <<>>
    /\ clean_system_prompt = <<>>
    /\ sanitized = FALSE
    /\ text = <<>>
    /\ allow_html = FALSE
    /\ min_length = 0
    /\ max_length = DefaultMaxLength
    /\ validated = NotValidated
    /\ revalidated = NotValidated
    /\ tgVariant = "InputValidator"
    /\ tags = <<>>
    /\ tgResult = NoTags
    /\ requests = [c \in ClientIps |-> <<>>]
    /\ rlNow = WindowTicks
    /\ admitted = [c \in ClientIps |-> <<>>]
    /\ rlResponse = NoResponse
    /\ rlCount = 0
    /\ chRequest = [prompt |-> <<>>, system_prompt |-> <<>>]
    /\ chResponse = NoChat
    /\ fpVariant \in FpVariants
    /\ filepath \in SeqsUpTo(PathChars, MaxChars)
    /\ fpResult = NoPath
    /\ ffVariant = "enhanced"
    /\ events_file = <<>>
    /\ events = [i \in Instances |-> <<>>]
    /\ running = {}
    /\ writable = TRUE
    /\ createLog = <<>>
    /\ table = [i \in Ids |-> CreatedFields]
    /\ co = [r \in Coroutines |-> IdleCoroutine]
    /\ todos = <<>>
    /\ todos_file = <<>>
    /\ expected = {}
    /\ cleanup = IdleCleanup
    /\ creating = IdleCreate
    /\ syService = "todoist"
    /\ remote = <<>>
    /\ rows = <<>>
    /\ lastRun = NeverRun
    /\ syncs = 0

\* no events file yet and no assistant process started
FfInit ==
    /\ provider = "demo"
    /\ now = StartTime
    /\ last_request_time = 0
    /\ pc = [c \in Callers |-> "idle"]
    /\ wake = [c \in Callers |-> 0]
    /\ dispatchTime = [c \in Callers |-> 0]
    /\ dispatched = <<>>
    /\ cause = [c \in Callers |-> NoEvent]
    /\ result = [c \in Callers |-> NoError]
    /\ calls = 0
    /\ exVariant = "enhanced"
    /\ exLLM = NoText("none")
    /\ exResult = NoResult
    /\ dVariant = "enhanced"
    /\ dIntent = "other"
    /\ dBundle = NoBundle
    /\ dMemory = {}
    /\ dStored = {}
    /\ dFlags = <<>>
    /\ dReply = NoReply
    /\ sVariant = "organizer_api"
    /\ store = [i \in Ids |-> NoRow]
    /\ written = [i \in Ids |-> NoRow]
    /\ sOp = NoOp
    /\ task = NoTask
    /\ event = NoCalendarEvent
    /\ mErr = FALSE
    /\ mOp = NoModelOp
    /\ prompt = <<>>
    /\ system_prompt = <<>>
    /\ clean_prompt = <<>>
    /\ clean_system_prompt = <<>>
    /\ sanitized = FALSE
    /\ text = <<>>
    /\ allow_html = FALSE
    /\ min_length = 0
    /\ max_length = DefaultMaxLength
    /\ validated = NotValidated
    /\ revalidated = NotValidated
    /\ tgVariant = "InputValidator"
    /\ tags = <<>>
    /\ tgResult = NoTags
    /\ requests = [c \in ClientIps |-> <<>>]
    /\ rlNow = WindowTicks
    /\ admitted = [c \in ClientIps |-> <<>>]
    /\ rlResponse = NoResponse
    /\ rlCount = 0
    /\ chRequest = [prompt |-> <<>>, system_prompt |-> <<>>]
    /\ chResponse = NoChat
    /\ fpVariant = "validate_filename"
    /\ filepath = <<>>
    /\ fpResult = NoPath
    /\ ffVariant \in FlatVariants
    /\ events_file = <<>>
    /\ events = [i \in Instances |-> <<>>]
    /\ running = {}
    /\ writable = TRUE
    /\ createLog = <<>>
    /\ table = [i \in Ids |-> CreatedFields]
    /\ co = [r \in Coroutines |-> IdleCoroutine]
    /\ todos = <<>>
    /\ todos_file = <<>>
    /\ expected = {}
    /\ cleanup = IdleCleanup
    /\ creating = IdleCreate
    /\ syService = "todoist"
    /\ remote = <<>>
    /\ rows = <<>>
    /\ lastRun = NeverRun
    /\ syncs = 0

\* a table that holds a row for every id, and no request in flight
CoInit ==
    /\ provider = "demo"
    /\ now = StartTime
    /\ last_request_time = 0
    /\ pc = [c \in Callers |-> "idle"]
    /\ wake = [c \in Callers |-> 0]
    /\ dispatchTime = [c \in Callers |-> 0]
    /\ dispatched = <<>>
    /\ cause = [c \in Callers |-> NoEvent]
    /\ result = [c \in Callers |-> NoError]
    /\ calls = 0
    /\ exVariant = "enhanced"
    /\ exLLM = NoText("none")
    /\ exResult = NoResult
    /\ dVariant = "enhanced"
    /\ dIntent = "other"
    /\ dBundle = NoBundle
    /\ dMemory = {}
    /\ dStored = {}
    /\ dFlags = <<>>
    /\ dReply = NoReply
    /\ sVariant = "organizer_api"
    /\ store = [i \in Ids |-> NoRow]
    /\ written = [i \in Ids |-> NoRow]
    /\ sOp = NoOp
    /\ task = NoTask
    /\ event = NoCalendarEvent
    /\ mErr = FALSE
    /\ mOp = NoModelOp
    /\ prompt = <<>>
    /\ system_prompt = <<>>
    /\ clean_prompt = <<>>
    /\ clean_system_prompt = <<>>
    /\ sanitized = FALSE
    /\ text = <<>>
    /\ allow_html = FALSE
    /\ min_length = 0
    /\ max_length = DefaultMaxLength
    /\ validated = NotValidated
    /\ revalidated = NotValidated
    /\ tgVariant = "InputValidator"
    /\ tags = <<>>
    /\ tgResult = NoTags
    /\ requests = [c \in ClientIps |-> <<>>]
    /\ rlNow = WindowTicks
    /\ admitted = [c \in ClientIps |-> <<>>]
    /\ rlResponse = NoResponse
    /\ rlCount = 0
    /\ chRequest = [prompt |-> <<>>, system_prompt |-> <<>>]
    /\ chResponse = NoChat
    /\ fpVariant = "validate_filename"
    /\ filepath = <<>>
    /\ fpResult = NoPath
    /\ ffVariant = "enhanced"
    /\ events_file = <<>>
    /\ events = [i \in Instances |-> <<>>]
    /\ running = {}
    /\ writable = TRUE
    /\ createLog = <<>>
    /\ table = [i \in Ids |-> CreatedFields]
    /\ co = [r \in Coroutines |-> IdleCoroutine]
    /\ todos = <<>>
    /\ todos_file = <<>>
    /\ expected = {}
    /\ cleanup = IdleCleanup
    /\ creating = IdleCreate
    /\ syService = "todoist"
    /\ remote = <<>>
    /\ rows = <<>>
    /\ lastRun = NeverRun
    /\ syncs = 0

\* an assistant that loaded its todos, both threads outside their functions
ClInit ==
    /\ provider = "demo"
    /\ now = StartTime
    /\ last_request_time = 0
    /\ pc = [c \in Callers |-> "idle"]
    /\ wake = [c \in Callers |-> 0]
    /\ dispatchTime = [c \in Callers |-> 0]
    /\ dispatched = <<>>
    /\ cause = [c \in Callers |-> NoEvent]
    /\ result = [c \in Callers |-> NoError]
    /\ calls = 0
    /\ exVariant = "enhanced"
    /\ exLLM = NoText("none")
    /\ exResult = NoResult
    /\ dVariant = "enhanced"
    /\ dIntent = "other"
    /\ dBundle = NoBundle
    /\ dMemory = {}
    /\ dStored = {}
    /\ dFlags = <<>>
    /\ dReply = NoReply
    /\ sVariant = "organizer_api"
    /\ store = [i \in Ids |-> NoRow]
    /\ written = [i \in Ids |-> NoRow]
    /\ sOp = NoOp
    /\ task = NoTask
    /\ event = NoCalendarEvent
    /\ mErr = FALSE
    /\ mOp = NoModelOp
    /\ prompt = <<>>
    /\ system_prompt = <<>>
    /\ clean_prompt = <<>>
    /\ clean_system_prompt = <<>>
    /\ sanitized = FALSE
    /\ text = <<>>
    /\ allow_html = FALSE
    /\ min_length = 0
    /\ max_length = DefaultMaxLength
    /\ validated = NotValidated
    /\ revalidated = NotValidated
    /\ tgVariant = "InputValidator"
    /\ tags = <<>>
    /\ tgResult = NoTags
    /\ requests = [c \in ClientIps |-> <<>>]
    /\ rlNow = WindowTicks
    /\ admitted = [c \in ClientIps |-> <<>>]
    /\ rlResponse = NoResponse
    /\ rlCount = 0
    /\ chRequest = [prompt |-> <<>>, system_prompt |-> <<>>]
    /\ chResponse = NoChat
    /\ fpVariant = "validate_filename"
    /\ filepath = <<>>
    /\ fpResult = NoPath
    /\ ffVariant = "enhanced"
    /\ events_file = <<>>
    /\ events = [i \in Instances |-> <<>>]
    /\ running = {}
    /\ writable = TRUE
    /\ createLog = <<>>
    /\ table = [i \in Ids |-> CreatedFields]
    /\ co = [r \in Coroutines |-> IdleCoroutine]
    /\ todos \in InitialTodos
    /\ todos_file = todos
    /\ expected = OpenUids(todos)
    /\ cleanup = IdleCleanup
    /\ creating = IdleCreate
    /\ syService = "todoist"
    /\ remote = <<>>
    /\ rows = <<>>
    /\ lastRun = NeverRun
    /\ syncs = 0

\* a local database that holds at most a row synced from the other service,
\* and the remote account as it is
SyInit ==
    /\ provider = "demo"
    /\ now = StartTime
    /\ last_request_time = 0
    /\ pc = [c \in Callers |-> "idle"]
    /\ wake = [c \in Callers |-> 0]
    /\ dispatchTime = [c \in Callers |-> 0]
    /\ dispatched = <<>>
    /\ cause = [c \in Callers |-> NoEvent]
    /\ result = [c \in Callers |-> NoError]
    /\ calls = 0
    /\ exVariant = "enhanced"
    /\ exLLM = NoText("none")
    /\ exResult = NoResult
    /\ dVariant = "enhanced"
    /\ dIntent = "other"
    /\ dBundle = NoBundle
    /\ dMemory = {}
    /\ dStored = {}
    /\ dFlags = <<>>
    /\ dReply = NoReply
    /\ sVariant = "organizer_api"
    /\ store = [i \in Ids |-> NoRow]
    /\ written = [i \in Ids |-> NoRow]
    /\ sOp = NoOp
    /\ task = NoTask
    /\ event = NoCalendarEvent
    /\ mErr = FALSE
    /\ mOp = NoModelOp
    /\ prompt = <<>>
    /\ system_prompt = <<>>
    /\ clean_prompt = <<>>
    /\ clean_system_prompt = <<>>
    /\ sanitized = FALSE
    /\ text = <<>>
    /\ allow_html = FALSE
    /\ min_length = 0
    /\ max_length = DefaultMaxLength
    /\ validated = NotValidated
    /\ revalidated = NotValidated
    /\ tgVariant = "InputValidator"
    /\ tags = <<>>
    /\ tgResult = NoTags
    /\ requests = [c \in ClientIps |-> <<>>]
    /\ rlNow = WindowTicks
    /\ admitted = [c \in ClientIps |-> <<>>]
    /\ rlResponse = NoResponse
    /\ rlCount = 0
    /\ chRequest = [prompt |-> <<>>, system_prompt |-> <<>>]
    /\ chResponse = NoChat
    /\ fpVariant = "validate_filename"
    /\ filepath = <<>>
    /\ fpResult = NoPath
    /\ ffVariant = "enhanced"
    /\ events_file = <<>>
    /\ events = [i \in Instances |-> <<>>]
    /\ running = {}
    /\ writable = TRUE
    /\ createLog = <<>>
    /\ table = [i \in Ids |-> CreatedFields]
    /\ co = [r \in Coroutines |-> IdleCoroutine]
    /\ todos = <<>>
    /\ todos_file = <<>>
    /\ expected = {}
    /\ cleanup = IdleCleanup
    /\ creating = IdleCreate
    /\ syService \in SyncServices
    /\ remote \in Listings
    /\ rows \in {<<>>} \cup {<<[source |-> svc, ext_id |-> i]>> :
                                svc \in SyncServices \ {syService}, i \in Ids}
    /\ lastRun = NeverRun
    /\ syncs = 0

SpecProvider == ProvInit /\ [][ProvNext]_vars

SpecExtract == ExInit /\ [][ExNext]_vars

SpecDispatch == DInit /\ [][DNext]_vars

SpecStore == SInit /\ [][SNext]_vars

SpecModels == MInit /\ [][MNext]_vars

SpecPrompt == PInit /\ [][PNext]_vars

SpecValidate == VInit /\ [][VNext]_vars

SpecTags == TgInit /\ [][TgNext]_vars

SpecRateLimit == RlInit /\ [][RlNext]_vars

SpecChat == ChInit /\ [][ChNext]_vars

SpecPaths == FpInit /\ [][FpNext]_vars

SpecFlatFile == FfInit /\ [][FfNext]_vars

SpecConnection == CoInit /\ [][CoNext]_vars

SpecCleanup == ClInit /\ [][ClNext]_vars

SpecSync == SyInit /\ [][SyNext]_vars

\* C1: on one provider instance any two requests handed to the backend are at
\* least the instance's minimum interval apart, also when calls overlap
C1_MinIntervalBetweenDispatches ==
    \A i, j \in 1..Len(dispatched) :
        i < j => dispatched[j] - dispatched[i] >= MinRequestInterval(provider)

\* C11: on every network-backed provider a reply with status 401 is raised
\* as an authentication error, 429 as a rate-limit error that carries the
\* Retry-After value of the reply, and any 5xx as a server error
C11_StatusClassification ==
    \A c \in Callers :
        (provider \in NetworkProviders /\ pc[c] = "returned" /\ cause[c].kind = "http") =>
            /\ cause[c].status = 401 => result[c].type = AUTHENTICATION
            /\ cause[c].status = 429 =>
                    /\ result[c].type = RATE_LIMIT
                    /\ cause[c].retry > 0 => result[c].retry_after = cause[c].retry
            /\ cause[c].status >= 500 => result[c].type = SERVER_ERROR

\* C12: the error the local-network backend's caller gets for a refused
\* connection differs in its error type from the one it gets for a 5xx reply
C12_UnreachableDistinctFromServerError ==
    \A c1, c2 \in Callers :
        (/\ provider = "ollama"
         /\ pc[c1] = "returned" /\ cause[c1].kind = "ConnectError"
         /\ pc[c2] = "returned" /\ cause[c2].kind = "http" /\ cause[c2].status >= 500)
            => result[c1].type # result[c2].type

\* C13: the prompt handed to the backend is never longer than 10,000
\* characters and the system prompt never longer than 1,000 characters
C13_PromptLengthBounded ==
    sanitized => /\ TextLength(clean_prompt) <= MaxPromptLength
                 /\ TextLength(clean_system_prompt) <= MaxSystemLength

\* C14: the prompt handed to the backend contains no blacklisted marker, in
\* whatever letter case the user prompt spelled it
C14_NoMarkerReachesBackend ==
    sanitized => \A k \in 1..Len(clean_prompt) : clean_prompt[k].kind # "marker"

\* C18: validating a text that validate_text returned succeeds and gives the
\* same text back
C18_ValidateTextIdempotent ==
    revalidated # NotValidated => revalidated = validated

\* a blacklisted substring, in any letter case, in the text as given
HasDangerous(t) == SearchDangerous(Lower(t))

\* C19: validate_text raises ValidationError for every text that contains a
\* blacklisted substring, whether or not HTML is allowed
C19_DangerousAlwaysRejected ==
    (validated # NotValidated /\ HasDangerous(text)) => validated = ValidationError

\* C15: after a successful parse of a JSON object the bundle has all six
\* top-level keys: the LLM's value where it gave one, an empty list for a
\* missing collection, the acknowledgement for a missing response
C15_SixKeysBackfilled ==
    (/\ exResult # NoResult
     /\ exLLM.kind = "text" /\ exLLM.type = "object"
     /\ JsonLoads(StripFence(exLLM)) = "value")
        => /\ exResult.status = "returned"
           /\ \A k \in BundleKeys :
                exResult.val[k] = IF k \in exLLM.keys THEN "llm"
                                  ELSE IF k = "response" THEN Acknowledgement ELSE "empty"

\* C16: an output that does not parse as it is but holds a JSON object inside
\* other text gives the content of that object, not the failure bundle
C16_ObjectInsideTextIsParsed ==
    (/\ exResult # NoResult
     /\ exLLM.kind = "text" /\ exLLM.type = "object"
     /\ JsonLoads(StripFence(exLLM)) = "JSONDecodeError")
        => /\ exResult.status = "returned"
           /\ exResult.val["response"] \notin {ParseApology, ErrorApology}
           /\ \A k \in exLLM.keys : exResult.val[k] = "llm"

\* C17: when only some of the candidates of a request are created, the reply
\* reports the number of created entities, which are the ones persisted
C17_PartialSuccessCounted ==
    (dReply # NoReply /\ Cardinality(dStored) < Len(DWork))
        => dReply.count = Cardinality(dStored)

\* C20: an event built from a candidate without end_time ends one hour after
\* it starts
C20_EndDefaultsToStartPlusOneHour ==
    (mOp = ModelOp("NewEvent", None) /\ ~mErr) => event.end_time = event.start_time + 1

\* a blacklisted substring that html.escape leaves as it is: every entry of
\* dangerous_patterns but <script
HasEscapeProofDangerous(t) == \E k \in 1..Len(t) : t[k].kind = "word" /\ t[k].pat # 1

\* C19, amended: validate_text raises ValidationError for every text that
\* contains, in any letter case, javascript:, data:text/html, vbscript:,
\* onload= or onerror=, whether or not HTML is allowed, and for every text
\* that contains <script when HTML is allowed
C19_DangerousRejectedUnlessEscaped ==
    (/\ validated # NotValidated
     /\ \/ HasEscapeProofDangerous(text)
        \/ allow_html /\ HasDangerous(text))
        => validated = ValidationError

\* a text within its length limits is rejected, with HTML not allowed, for a
\* javascript: written in capitals
C19_RejectedForCapitalWord ==
    /\ validated = ValidationError
    /\ ~allow_html
    /\ TextLength(Strip(text)) >= min_length
    /\ TextLength(Strip(text)) <= max_length
    /\ \E k \in 1..Len(text) : text[k] = Word(2, "upper")

C22_OverLimitAnswered429 ==
    (/\ rlResponse # NoResponse
     /\ rlResponse.path \notin ExemptPaths
     /\ rlResponse.client # "127.0.0.1") =>
        IF rlResponse.before >= RateLimitPerMinute
        THEN /\ rlResponse.response.status = 429
             /\ rlResponse.response.retry_after
             /\ ~rlResponse.response.handled
        ELSE /\ rlResponse.response.status = 200
             /\ rlResponse.response.handled

\* C23: a request whose input fails validation, by the request model or by
\* validate_text, is answered 422 naming the field that failed, never with
\* another status.
C23_ValidationFailureAnswered422 ==
    (/\ chResponse # NoChat
     /\ \/ LLMRequestModel(chRequest) # ""
        \/ ValidateText(chRequest.prompt, 1, MaxPromptLength, FALSE) = ValidationError
        \/ ValidateText(chRequest.system_prompt, 0, MaxSystemLength, FALSE)
             = ValidationError) =>
        chResponse.status = 422 /\ chResponse.field # ""

\* C24: for a non-empty filename validate_filename raises or returns a name
\* without ".." and without any of the characters it replaces.
C24_FilenameHasNoDotDot ==
    (fpVariant = "validate_filename" /\ filepath # <<>> /\ fpResult.status = "ok") =>
        /\ ~HasDotDot(fpResult.path)
        /\ \A i \in 1..Len(fpResult.path) : fpResult.path[i] \notin {"<", "/"}

\* C25: no accepted path designates a location outside the permitted root:
\* an accepted path is not absolute and does not begin, once its components
\* are resolved, with a parent-directory component.
C25_AcceptedPathInsideRoot ==
    (fpVariant # "validate_filename" /\ fpResult.status = "ok") =>
        /\ ~StartsWith(fpResult.path, <<"/">>)
        /\ ~StartsWith(NormPath(fpResult.path), <<".", ".">>)

\* C26: concurrent writers of the flat file lose updates: whenever each of
\* two assistant processes has created an entity with success that the other
\* process does not hold in memory, the file lacks at least one of the two.
C26_BlindWritersLoseOne ==
    \A k1, k2 \in 1..Len(createLog) :
        LET a == createLog[k1]
            b == createLog[k2]
        IN  (/\ a.instance # b.instance
             /\ a.ret /\ b.ret
             /\ ~Holds(events[b.instance], a.uid)
             /\ ~Holds(events[a.instance], b.uid)) =>
                ~(Holds(events_file, a.uid) /\ Holds(events_file, b.uid))

\* both processes created an entity, both calls returned True and wrote the
\* file, and the file now lacks the first of the two
C26_LostUpdate ==
    \E k1, k2 \in 1..Len(createLog) :
        /\ createLog[k1].instance # createLog[k2].instance
        /\ createLog[k1].ret /\ createLog[k1].in_file
        /\ createLog[k2].ret /\ createLog[k2].in_file
        /\ ~Holds(events_file, createLog[k1].uid)
        /\ Holds(events_file, createLog[k2].uid)

\* C28: a flat-file create returns True only if the entity was written to the
\* file, and when it returns False the entity is neither in the in-memory
\* collection nor in the file.
C28_CreateFlagAgreesWithStore ==
    \A k \in 1..Len(createLog) :
        /\ createLog[k].ret => createLog[k].in_file
        /\ ~createLog[k].ret => ~createLog[k].in_memory /\ ~createLog[k].in_file

\* C27: when an update of an id returns the updated entity, a row with that
\* id holding the fields of the update is in the store at that moment, also
\* when a delete of the id runs on the shared connection at the same time
\* (the fields are compared when no other update of the id was issued).
C27_UpdatedRowExistsAtReturn ==
    \A r \in Coroutines :
        (co[r].pc = "done" /\ co[r].op = "update" /\ co[r].ret = "event") =>
            /\ co[r].row_at_return # None
            /\ (\A q \in Coroutines \ {r} :
                    ~(co[q].op = "update" /\ co[q].id = co[r].id)) =>
                  co[r].row_at_return = r

\* C29: the cleanup removes no todo that is not completed: once the cleanup
\* and create_todo have returned, every such todo that was in the list
\* before the cleanup or was added while it ran is in the list and in the
\* saved file.
C29_CleanupKeepsOpenTodos ==
    (cleanup.pc = "idle" /\ creating.pc = "idle") =>
        /\ expected \subseteq OpenUids(todos)
        /\ expected \subseteq OpenUids(todos_file)

\* C30: after any number of sync runs no two local rows carry the same
\* external id of the same service, and a run against the listing the
\* previous run saw creates no local row.
C30_SyncIdempotent ==
    /\ \A i, j \in 1..Len(rows) :
          (i # j /\ rows[i].source = rows[j].source) => rows[i].ext_id # rows[j].ext_id
    /\ lastRun.unchanged => lastRun.synced = 0

\* the service was synced a second time against the same listing, all of
\* whose items convert, and the rows of the listing are stored
C30_SecondRunCreatedNothing ==
    /\ lastRun.unchanged
    /\ lastRun.seen
    /\ remote # <<>>
    /\ \A i \in 1..Len(remote) :
          /\ remote[i].ok
          /\ Existing(rows, syService, remote[i].ext_id)
    /\ ~lastRun.raised

\* C10: generate_response reports Timeout exactly when the backend call
\* exceeded the configured deadline
C10_TimeoutIffDeadline ==
    \A c \in Callers :
        pc[c] = "returned" =>
            (result[c].type = TIMEOUT <=> cause[c].kind \in {"deadline", "TimeoutException"})

\* an LLM outcome that is not a JSON object
NotAnObject(v, x) ==
    \/ x.kind \in {"raise", "none"}
    \/ JsonLoads(StripFence(x)) = "JSONDecodeError"
    \/ x.type # "object"

IsFailureBundle(v, r) ==
    /\ r.status = "returned"
    /\ r.type = "object"
    /\ \A k \in Collections(v) : r.val[k] = "empty"
    /\ r.val["response"] \in {ParseApology, ErrorApology}

\* C2: the extraction engine never raises; for every LLM outcome that is not
\* a JSON object it returns the bundle of empty lists with a canned apology
C2_ExtractionNeverRaises ==
    /\ exResult.status # "raised"
    /\ (exResult.status = "returned" /\ NotAnObject(exVariant, exLLM))
            => IsFailureBundle(exVariant, exResult)

\* C5: a PUT or DELETE addressed to an id that does not exist is answered
\* with status 404 on every service
C5_UnknownIdAnswered404 ==
    (sOp.op \in {"PUT", "DELETE"} /\ ~sOp.existed /\ sOp.status # 422) => sOp.status = 404

\* C6: update and delete of the storage layer return a falsy value for an id
\* that is not stored, without raising or changing a row, and a truthy value
\* for an id that is stored
C6_StorageNotFoundIsFalsy ==
    (sOp.op \in {"PUT", "DELETE"} /\ sOp.svc # "n/a") =>
        IF sOp.existed
        THEN sOp.svc \in {"True", "entity"}
        ELSE sOp.svc \in {"False", "None"} /\ ~sOp.changed

\* C7: reading a created entity back by its id gives the created entity
\* field for field
C7_CreateThenGetRoundTrip ==
    (sOp.op = "GET" /\ sOp.existed) =>
        /\ sOp.status = 200
        /\ sOp.body = written[sOp.id]

\* C8: for every task, however it was built, completed, assigned to or
\* updated, completed_at is null unless status is completed
C8_CompletedAtOnlyWhenCompleted ==
    task.variant # "none" => (task.completed_at # None => task.status = "completed")

\* C9: for every calendar event, after construction and after any assignment
\* of start_time or end_time, end_time is later than start_time when present
C9_EndAfterStart ==
    event.variant # "none" => (event.end_time # None => event.end_time > event.start_time)
====
